---- MODULE Spec2Model ----
(***************************************************************************)
(* Model of metadata/update-meta.py: the metadata resolution engine of the *)
(* Tcl/Tk package registry.                                                *)
(*                                                                         *)
(* Python values are modelled uniformly as tuples so that any two of them  *)
(* can be compared: a str is the tuple of its characters, None is the      *)
(* one-element tuple <<"None">>, True/False are <<"True">>/<<"False">>.    *)
(* A dict is a function whose DOMAIN is its key set.                       *)
(***************************************************************************)
EXTENDS Integers, Sequences, FiniteSets, TLC

VARIABLES
    stage,      \* which function a function-level harness has applied
    arg,        \* input of the function under study
    ret,        \* values returned so far by the function under study
    pc,                  \* position of main()
    packages,            \* the catalog loaded from INPUT_FILE
    idx,                 \* 1-based index of the package being processed
    sidx,                \* 1-based index of the source being processed
    reachable,           \* main(): result of check_url_reachable for the source
    src_meta,            \* main(): its local meta, the dict the resolver returned
    date_meta,           \* process_fossil(): its local date_meta
    enriched_sources,    \* main(): list built for the current package
    enriched_packages,   \* main(): list of the packages done
    final_output,        \* what was dumped to OUTPUT_FILE, None before
    _github_repo_cache,
    _fossil_repo_cache,
    _fossil_date_cache,
    trace,      \* history: what the resolver of the current source did
    executions  \* history: how often each cascade was executed, per key

harness == <<stage, arg, ret>>

mainvars == <<pc, packages, idx, sidx, reachable, src_meta, date_meta, enriched_sources,
         enriched_packages, final_output, _github_repo_cache, _fossil_repo_cache,
         _fossil_date_cache, trace, executions>>

vars == <<harness, mainvars>>

\* main() is not running
RunIdle ==
    /\ pc = "idle"
    /\ packages = <<>> /\ idx = 0 /\ sidx = 0
    /\ reachable = <<>> /\ src_meta = <<>> /\ date_meta = <<>>
    /\ enriched_sources = <<>> /\ enriched_packages = <<>> /\ final_output = <<>>
    /\ _github_repo_cache = <<>> /\ _fossil_repo_cache = <<>> /\ _fossil_date_cache = <<>>
    /\ trace = <<>> /\ executions = <<>>

\* no function-level harness is running
HarnessIdle == stage = "main" /\ arg = <<>> /\ ret = <<>>

----------------------------------------------------------------------------
(* Python values *)

None == <<"None">>
PyTrue == <<"True">>
PyFalse == <<"False">>

\* Python truthiness of a str-or-None value: `if body`, `if not tag`
Truthy(v) == v # None /\ v # <<>>

Min(S) == CHOOSE x \in S : \A y \in S : x <= y
Max(S) == CHOOSE x \in S : \A y \in S : x >= y

----------------------------------------------------------------------------
(* str operations used by the program *)

\* p occurs in s starting at position i
OccursAt(s, p, i) == i >= 1 /\ i + Len(p) - 1 <= Len(s) /\ SubSeq(s, i, i + Len(p) - 1) = p

Occurrences(s, p) == {i \in 1..Len(s) : OccursAt(s, p, i)}

\* `p in s`
Contains(s, p) == Occurrences(s, p) # {}

\* s.index(p), 1-based; only used when Contains(s, p)
Index(s, p) == Min(Occurrences(s, p))

\* s.split(c)[0]: the part of s before the first occurrence of character c
BeforeFirst(s, c) ==
    LET hits == {i \in 1..Len(s) : s[i] = c}
    IN IF hits = {} THEN s ELSE SubSeq(s, 1, Min(hits) - 1)

\* s.rstrip(c) for a single character c
RStrip(s, c) ==
    LET keep == {i \in 1..Len(s) : s[i] # c}
    IN IF keep = {} THEN <<>> ELSE SubSeq(s, 1, Max(keep))

\* s.startswith(p)
StartsWith(s, p) == OccursAt(s, p, 1)

----------------------------------------------------------------------------
(* Text constants *)

HTTPS == <<"h","t","t","p","s",":","/","/">>
W_core == <<"c","o","r","e",".","t","c","l","-","l","a","n","g",".","o","r","g">>
W_chisel == <<"c","h","i","s","e","l","a","p","p",".","c","o","m">>
W_fossilscm == <<"f","o","s","s","i","l","-","s","c","m",".","o","r","g">>
W_github == <<"g","i","t","h","u","b",".","c","o","m">>
W_tcllib == <<"t","c","l","l","i","b">>
W_tcl == <<"t","c","l">>
W_tk == <<"t","k">>
W_tcltk == <<"t","c","l","t","k">>
W_user == <<"u","s","e","r">>
W_rkeene == <<"r","k","e","e","n","e">>
W_repository == <<"r","e","p","o","s","i","t","o","r","y">>
W_modules == <<"m","o","d","u","l","e","s">>
W_ftp == <<"f","t","p">>
W_dirutil == <<"d","i","r","u","t","i","l">>
W_name == <<"n","a","m","e","=">>
W_ci_trunk == <<"c","i","=","t","r","u","n","k">>
SL == <<"/">>

\* FOSSIL_PAGES, in the order of the tuple in the source
FOSSIL_PAGES ==
    << <<"/","d","i","r">>, <<"/","f","i","l","e">>, <<"/","d","o","c">>,
       <<"/","w","i","k","i">>, <<"/","t","i","c","k","e","t">>,
       <<"/","t","i","m","e","l","i","n","e">>, <<"/","i","n","f","o">>,
       <<"/","a","r","t","i","f","a","c","t">>, <<"/","r","a","w">>,
       <<"/","z","i","p">>, <<"/","t","a","r","b","a","l","l">>,
       <<"/","j","s","o","n">>, <<"/","i","n","d","e","x">>,
       <<"/","h","o","m","e">> >>

PageMarkers == {FOSSIL_PAGES[k] : k \in DOMAIN FOSSIL_PAGES}

----------------------------------------------------------------------------
(* extract_fossil_base *)

\* for page in FOSSIL_PAGES: if page in base: base = base[:base.index(page)]; break
StripFirstPage(base) ==
    LET found == {k \in DOMAIN FOSSIL_PAGES : Contains(base, FOSSIL_PAGES[k])}
    IN IF found = {} THEN base
       ELSE SubSeq(base, 1, Index(base, FOSSIL_PAGES[Min(found)]) - 1)

extract_fossil_base(url) ==
    RStrip(StripFirstPage(RStrip(BeforeFirst(url, "?"), "/")), "/")

----------------------------------------------------------------------------
(* Harness for extract_fossil_base: a URL is assembled from a repository   *)
(* root, a tail of path segments, an optional trailing slash and an        *)
(* optional query string; the function is applied to it, then to its own   *)
(* result.                                                                 *)

MaxPathSegs == 2

RootCore == HTTPS \o W_core \o SL \o W_tcllib
RootChisel == HTTPS \o W_chisel \o SL \o W_user \o SL \o W_rkeene \o SL \o W_repository \o SL \o W_tcllib
RootFossilScm == HTTPS \o W_fossilscm \o <<"/","h","o","m","e">>

NormRoots == {RootCore, RootChisel, RootFossilScm}

PathSegs == PageMarkers \cup {SL \o W_modules, SL \o W_dirutil}

Q_module == <<"?">> \o W_name \o W_modules \o SL \o W_ftp \o <<"&">> \o W_ci_trunk
Q_marker == <<"?">> \o W_name \o W_modules \o <<"/","d","i","r">>

NormQueries == {<<>>, Q_module, Q_marker}

RECURSIVE Flatten(_)
Flatten(ss) == IF ss = <<>> THEN <<>> ELSE Head(ss) \o Flatten(Tail(ss))

NormInputs ==
    [root : NormRoots,
     tail : UNION {[1..n -> PathSegs] : n \in 0..MaxPathSegs},
     slash : BOOLEAN,
     query : NormQueries]

UrlOf(in) == in.root \o Flatten(in.tail) \o (IF in.slash THEN SL ELSE <<>>) \o in.query

InitNorm ==
    /\ stage = "norm_input"
    /\ arg \in NormInputs
    /\ ret = <<>>
    /\ RunIdle

Normalize ==
    /\ stage = "norm_input"
    /\ ret' = <<extract_fossil_base(UrlOf(arg))>>
    /\ stage' = "norm_once"
    /\ UNCHANGED <<arg, mainvars>>

Renormalize ==
    /\ stage = "norm_once"
    /\ ret' = Append(ret, extract_fossil_base(ret[1]))
    /\ stage' = "norm_twice"
    /\ UNCHANGED <<arg, mainvars>>

NextNorm == Normalize \/ Renormalize

SpecNorm == InitNorm /\ [][NextNorm]_vars

\* C4: normalization is idempotent, and a page URL built from a root, one
\* known page marker and a query string normalizes to that root.
NormalizeIdempotent ==
    /\ stage = "norm_twice" => ret[2] = ret[1]
    /\ (stage # "norm_input" /\ Len(arg.tail) = 1 /\ arg.tail[1] \in PageMarkers
            /\ ~arg.slash /\ arg.query # <<>>)
        => ret[1] = arg.root

----------------------------------------------------------------------------
(* Character classes and whitespace handling *)

Digits == {"0","1","2","3","4","5","6","7","8","9"}
HexChars == Digits \cup {"a","b","c","d","e","f"}
Whitespace == {" ", "\t", "\n"}

DigitVal(c) ==
    CASE c = "0" -> 0 [] c = "1" -> 1 [] c = "2" -> 2 [] c = "3" -> 3 [] c = "4" -> 4
      [] c = "5" -> 5 [] c = "6" -> 6 [] c = "7" -> 7 [] c = "8" -> 8 [] c = "9" -> 9

\* s.strip()
Strip(s) ==
    LET keep == {i \in 1..Len(s) : s[i] \notin Whitespace}
    IN IF keep = {} THEN <<>> ELSE SubSeq(s, Min(keep), Max(keep))

\* s.isdigit()
IsDigitStr(s) == s # <<>> /\ \A i \in 1..Len(s) : s[i] \in Digits

\* int(s) for a string of decimal digits
RECURSIVE ToInt(_)
ToInt(s) == IF s = <<>> THEN 0 ELSE 10 * ToInt(SubSeq(s, 1, Len(s) - 1)) + DigitVal(s[Len(s)])

\* re.search(r'\d', s)
HasDigit(s) == \E i \in 1..Len(s) : s[i] \in Digits

\* s.splitlines() (the only line terminator the tools emit is "\n")
RECURSIVE SplitLines(_)
SplitLines(s) ==
    IF s = <<>> THEN <<>>
    ELSE LET nl == {i \in 1..Len(s) : s[i] = "\n"}
         IN IF nl = {} THEN <<s>>
            ELSE <<SubSeq(s, 1, Min(nl) - 1)>> \o SplitLines(SubSeq(s, Min(nl) + 1, Len(s)))

\* length of the longest prefix of s made of characters of class C
RunLen(s, C) ==
    LET stop == {i \in 1..Len(s) : s[i] \notin C}
    IN IF stop = {} THEN Len(s) ELSE Min(stop) - 1

----------------------------------------------------------------------------
(* run_cmd: the outcome of subprocess.run is a record                      *)
(*   [kind |-> "completed", returncode |-> n, stdout |-> text]             *)
(* or [kind |-> "TimeoutExpired"] or [kind |-> "Exception"].               *)

run_cmd(proc) ==
    IF proc.kind = "completed" /\ proc.returncode = 0 THEN Strip(proc.stdout) ELSE None

----------------------------------------------------------------------------
(* _latest_tag_from_git_mirror *)

W_refs_tags == <<"r","e","f","s","/","t","a","g","s","/">>
W_refs_heads == <<"r","e","f","s","/","h","e","a","d","s","/">>

\* re.match(r'[0-9a-f]+\s+refs/tags/(.+)', line): m.group(1).strip(), or None
ParseRefLine(line) ==
    LET h == RunLen(line, HexChars)
        rest1 == SubSeq(line, h + 1, Len(line))
        w == RunLen(rest1, Whitespace)
        rest2 == SubSeq(rest1, w + 1, Len(rest1))
    IN IF h >= 1 /\ w >= 1 /\ StartsWith(rest2, W_refs_tags) /\ Len(rest2) > Len(W_refs_tags)
       THEN Strip(SubSeq(rest2, Len(W_refs_tags) + 1, Len(rest2)))
       ELSE None

\* the loop over output.splitlines() that collects the digit-bearing tags
RECURSIVE CollectTags(_)
CollectTags(lines) ==
    IF lines = <<>> THEN <<>>
    ELSE LET t == ParseRefLine(Strip(Head(lines)))
         IN (IF t # None /\ HasDigit(t) THEN <<t>> ELSE <<>>) \o CollectTags(Tail(lines))

\* re.findall(r'\d+', t): the maximal digit runs of t, in order
RECURSIVE DigitRuns(_)
DigitRuns(t) ==
    IF t = <<>> THEN <<>>
    ELSE LET d == RunLen(t, Digits)
         IN IF d = 0 THEN DigitRuns(Tail(t))
            ELSE <<SubSeq(t, 1, d)>> \o DigitRuns(SubSeq(t, d + 1, Len(t)))

\* A slip: r'\d' instead of r'\d+', every digit becomes its own component
version_key_per_digit(t) ==
    LET ds == SelectSeq(t, LAMBDA c : c \in Digits)
    IN [i \in 1..Len(ds) |-> DigitVal(ds[i])]

\* def version_key(t): return [int(n) for n in re.findall(r'\d+', t)]
version_key(t) ==
    LET runs == DigitRuns(t)
    IN [i \in 1..Len(runs) |-> ToInt(runs[i])]

\* Python's `<` on two lists of int
PyListLess(a, b) ==
    \/ Len(a) < Len(b) /\ SubSeq(b, 1, Len(a)) = a
    \/ \E k \in 1..Len(a) :
          /\ k <= Len(b)
          /\ SubSeq(a, 1, k - 1) = SubSeq(b, 1, k - 1)
          /\ a[k] < b[k]

\* sorted(tags, key=version_key, reverse=True)[0]: the sort is stable, so
\* among the tags of greatest key the one that comes first in tags is returned
SortedFirst(tags) ==
    LET best == {i \in 1..Len(tags) :
                    \A j \in 1..Len(tags) : ~PyListLess(version_key(tags[i]), version_key(tags[j]))}
    IN tags[Min(best)]

\* output is the value returned by run_cmd('git ls-remote --tags --refs ...')
_latest_tag_from_git_mirror(output) ==
    IF ~Truthy(output) THEN None
    ELSE LET tags == CollectTags(SplitLines(output))
         IN IF tags = <<>> THEN None ELSE SortedFirst(tags)

----------------------------------------------------------------------------
(* Harness for _latest_tag_from_git_mirror: the remote holds a list of     *)
(* refs; git prints one "<sha>\t<ref>" line per ref.  Each tag of the pool *)
(* is given with its numeric components, so that the check does not rest   *)
(* on the parsing it examines.                                             *)

MaxRefs == 3

TagPool ==
    { [name |-> <<"1","-","9","-","0">>, nums |-> <<1, 9, 0>>],
      [name |-> <<"1","-","2","1","-","0">>, nums |-> <<1, 21, 0>>],
      [name |-> <<"1","-","2","0","-","1">>, nums |-> <<1, 20, 1>>],
      [name |-> <<"1","-","2","1">>, nums |-> <<1, 21>>],
      [name |-> <<"v","0","1",".","2","1",".","0">>, nums |-> <<1, 21, 0>>],
      [name |-> <<"t","r","u","n","k">>, nums |-> <<>>],
      [name |-> <<"r","e","l","e","a","s","e">>, nums |-> <<>>] }

RefPool ==
    [kind : {"tag"}, tag : TagPool]
      \cup {[kind |-> "head", tag |-> [name |-> <<"m","a","i","n","2">>, nums |-> <<2>>]]}

RefLine(r) ==
    <<"a","1","f","0","\t">> \o (IF r.kind = "tag" THEN W_refs_tags ELSE W_refs_heads)
        \o r.tag.name \o <<"\n">>

RECURSIVE LsRemoteText(_)
LsRemoteText(refs) == IF refs = <<>> THEN <<>> ELSE RefLine(Head(refs)) \o LsRemoteText(Tail(refs))

LsRemoteRuns ==
    [kind : {"completed"}, returncode : {0},
     refs : UNION {[1..n -> RefPool] : n \in 0..MaxRefs}]
      \cup {[kind |-> "completed", returncode |-> 128, refs |-> <<>>],
            [kind |-> "TimeoutExpired", returncode |-> 0, refs |-> <<>>]}

LsRemoteProc(run) ==
    [kind |-> run.kind, returncode |-> run.returncode, stdout |-> LsRemoteText(run.refs)]

InitTag ==
    /\ stage = "tag_input"
    /\ arg \in LsRemoteRuns
    /\ ret = <<>>
    /\ RunIdle

LatestTag ==
    /\ stage = "tag_input"
    /\ ret' = <<_latest_tag_from_git_mirror(run_cmd(LsRemoteProc(arg)))>>
    /\ stage' = "tag_done"
    /\ UNCHANGED <<arg, mainvars>>

NextTag == LatestTag

SpecTag == InitTag /\ [][NextTag]_vars

\* the digit-bearing tags the remote holds
VersionTags(run) ==
    {run.refs[i].tag : i \in {k \in 1..Len(run.refs) :
        run.refs[k].kind = "tag" /\ run.refs[k].tag.nums # <<>>}}

\* C5: the tag returned is a digit-bearing tag of the remote whose numeric
\* components are maximal under component-wise numeric comparison; tags
\* without a digit are never returned; no digit-bearing tag means no tag.
TagNumericOrdering ==
    stage = "tag_done" =>
        LET cands == VersionTags(arg)
        IN IF arg.kind # "completed" \/ arg.returncode # 0 \/ cands = {}
           THEN ret[1] = None
           ELSE \E c \in cands :
                   /\ ret[1] = c.name
                   /\ \A d \in cands : ~PyListLess(c.nums, d.nums)

T_1_9_0 == CHOOSE t \in TagPool : t.nums = <<1, 9, 0>>
T_1_21_0 == CHOOSE t \in TagPool : t.name = <<"1","-","2","1","-","0">>
T_1_20_1 == CHOOSE t \in TagPool : t.nums = <<1, 20, 1>>

\* the example of the claim: 1-9-0, 1-21-0, 1-20-1 gives 1-21-0
TagNumericOrderingWitness ==
    /\ stage = "tag_done"
    /\ arg.kind = "completed" /\ arg.returncode = 0
    /\ arg.refs = <<[kind |-> "tag", tag |-> T_1_9_0], [kind |-> "tag", tag |-> T_1_21_0],
                    [kind |-> "tag", tag |-> T_1_20_1]>>
    /\ ret[1] = T_1_21_0.name

----------------------------------------------------------------------------
(* run_curl *)

SENTINEL == <<"_","_","H","T","T","P","_","C","O","D","E","_","_">>

\* A slip: split at the first sentinel instead of rsplit at the last one
run_curl_split_first(proc) ==
    IF proc.kind # "completed" THEN <<None, 0>>
    ELSE LET output == proc.stdout
         IN IF Contains(output, SENTINEL)
            THEN LET at == Index(output, SENTINEL)
                     code_str == Strip(SubSeq(output, at + Len(SENTINEL), Len(output)))
                 IN <<Strip(SubSeq(output, 1, at - 1)),
                      IF IsDigitStr(code_str) THEN ToInt(code_str) ELSE 0>>
            ELSE <<Strip(output), 0>>

\* returns the pair (body, http_code)
run_curl(proc) ==
    IF proc.kind # "completed" THEN <<None, 0>>
    ELSE LET output == proc.stdout
         IN IF Contains(output, SENTINEL)
            THEN LET at == Max(Occurrences(output, SENTINEL))
                     code_str == Strip(SubSeq(output, at + Len(SENTINEL), Len(output)))
                 IN <<Strip(SubSeq(output, 1, at - 1)),
                      IF IsDigitStr(code_str) THEN ToInt(code_str) ELSE 0>>
            ELSE <<Strip(output), 0>>

----------------------------------------------------------------------------
(* Harness for run_curl.  What the curl command of run_curl leaves on its  *)
(* standard output: the response body followed by "\n__HTTP_CODE__" and    *)
(* the status, which curl prints as 000 when it got no response            *)
(* (connection failure, or its own --max-time expiry).                     *)

MaxBodyLines == 2

LinePool ==
    { <<>>, <<"{","}">>, <<" ","o","k"," ">>, <<"e","r","r">>,
      <<"a">> \o SENTINEL \o <<"4","0","4","b">> }

StatusPool ==
    { [digits |-> <<"2","0","0">>, value |-> 200],
      [digits |-> <<"3","0","4">>, value |-> 304],
      [digits |-> <<"4","0","3">>, value |-> 403],
      [digits |-> <<"4","0","4">>, value |-> 404],
      [digits |-> <<"5","0","0">>, value |-> 500],
      [digits |-> <<"5","0","3">>, value |-> 503] }

NoStatus == [digits |-> <<"0","0","0">>, value |-> 0]

\* kinds of outcome of the curl command
\*   http          an HTTP exchange completed
\*   connect_fail  curl could not connect (curl exits 7)
\*   curl_timeout  curl's --max-time expired (curl exits 28)
\*   spawn_fail    the shell could not run curl (exits 127, prints nothing)
\*   TimeoutExpired, Exception   subprocess.run raised
TransportFailures ==
    {"connect_fail", "curl_timeout", "spawn_fail", "TimeoutExpired", "Exception"}

CurlRuns ==
    [kind : {"http"}, lines : UNION {[1..n -> LinePool] : n \in 1..MaxBodyLines},
     status : StatusPool]
      \cup [kind : TransportFailures, lines : {<<>>}, status : {NoStatus}]

\* the body a server sends: its lines joined by "\n"
RECURSIVE BodySent(_)
BodySent(lines) ==
    IF lines = <<>> THEN <<>>
    ELSE IF Len(lines) = 1 THEN lines[1]
    ELSE Head(lines) \o <<"\n">> \o BodySent(Tail(lines))

CurlProc(run) ==
    CASE run.kind \in {"TimeoutExpired", "Exception"} -> [kind |-> run.kind]
      [] run.kind = "spawn_fail" -> [kind |-> "completed", returncode |-> 127, stdout |-> <<>>]
      [] OTHER ->
            [kind |-> "completed",
             returncode |-> IF run.kind = "http" THEN 0
                            ELSE IF run.kind = "connect_fail" THEN 7 ELSE 28,
             stdout |-> BodySent(run.lines) \o <<"\n">> \o SENTINEL \o run.status.digits]

InitCurl ==
    /\ stage = "curl_input"
    /\ arg \in CurlRuns
    /\ ret = <<>>
    /\ RunIdle

RunCurl ==
    /\ stage = "curl_input"
    /\ ret' = <<run_curl(CurlProc(arg))>>
    /\ stage' = "curl_done"
    /\ UNCHANGED <<arg, mainvars>>

NextCurl == RunCurl

SpecCurl == InitCurl /\ [][NextCurl]_vars

----------------------------------------------------------------------------
(* JSON documents.  json.loads(body) either raises JSONDecodeError or      *)
(* returns a Python value; the values are tagged so that the type errors   *)
(* of the code (calling .get on a list, slicing None) can be told apart:   *)
(*   <<"null">>  <<"bool", b>>  <<"num", n>>  <<"str", s>>                 *)
(*   <<"arr", seq>>  <<"obj", f>>                                          *)
(* A response body is None, the empty string, or a document <<fmt, c>>     *)
(* with fmt "json" (c a value above), "html" (c the features the regular   *)
(* expressions of the program look for) or "junk".                         *)

JNull == <<"null">>
JBool(b) == <<"bool", b>>
JStr(s) == <<"str", s>>
JArr(a) == <<"arr", a>>
JObj(f) == <<"obj", f>>
JEmptyObj == JObj(<<>>)

IsObj(j) == j[1] = "obj"

\* d.get(k, default) on a dict
DictGet(j, k, default) == IF k \in DOMAIN j[2] THEN j[2][k] ELSE default

\* truthiness of a parsed JSON value
JTruthy(j) ==
    CASE j[1] = "null" -> FALSE
      [] j[1] = "bool" -> j[2]
      [] j[1] = "num" -> j[2] # 0
      [] j[1] = "obj" -> DOMAIN j[2] # {}
      [] OTHER -> j[2] # <<>>

\* Python's `a or b`
JOr(a, b) == IF JTruthy(a) THEN a ELSE b

\* the Python value a parsed JSON scalar stands for
ToPy(j) ==
    CASE j[1] = "null" -> None
      [] j[1] = "str" -> j[2]
      [] j[1] = "bool" -> (IF j[2] THEN PyTrue ELSE PyFalse)
      [] OTHER -> j

IsJson(body) == Len(body) = 2 /\ body[1] = "json"
IsHtml(body) == Len(body) = 2 /\ body[1] = "html"

\* s[:n]
Slice(s, n) == SubSeq(s, 1, IF Len(s) < n THEN Len(s) ELSE n)

----------------------------------------------------------------------------
(* Opaque strings: text whose characters the program never inspects is     *)
(* written as a one-element tuple holding the text.                        *)

M_git == <<"git">>
M_fossil == <<"fossil">>
M_hg == <<"hg">>
E_clone_failed == <<"clone_failed">>
E_date_not_found == <<"date_not_found">>
E_unknown_method == <<"unknown_method">>

----------------------------------------------------------------------------
(* process_git *)

GitMeta0 == [last_commit |-> None, last_commit_sha |-> None, last_tag |-> None]

\* [t.strip() for t in tags_output.split('\n') if t.strip()]
RECURSIVE NonBlankLines(_)
NonBlankLines(lines) ==
    IF lines = <<>> THEN <<>>
    ELSE (IF Strip(Head(lines)) # <<>> THEN <<Strip(Head(lines))>> ELSE <<>>)
            \o NonBlankLines(Tail(lines))

SetIf(meta, key, val) == IF Truthy(val) THEN [meta EXCEPT ![key] = val] ELSE meta

\* A slip: a failed clone is recorded but the function does not return
process_git_no_return(clone, log, rev, tags) ==
    LET commit_date == run_cmd(log)
        commit_sha == run_cmd(rev)
        m0 == IF run_cmd(clone.proc) = None /\ ~clone.isdir
              THEN ("error" :> E_clone_failed) @@ GitMeta0 ELSE GitMeta0
        m1 == SetIf(m0, "last_commit", commit_date)
        m2 == SetIf(m1, "last_commit_sha", commit_sha)
    IN [fields |-> m2, queries |-> <<"log", "rev-parse", "tag">>]

\* A slip: the queries are chained, a missing date drops the hash and the tag
process_git_chained(clone, log, rev, tags) ==
    IF run_cmd(clone.proc) = None /\ ~clone.isdir
    THEN [fields |-> ("error" :> E_clone_failed) @@ GitMeta0, queries |-> <<>>]
    ELSE IF ~Truthy(run_cmd(log)) THEN [fields |-> GitMeta0, queries |-> <<"log">>]
    ELSE LET tl == NonBlankLines(SplitLines(run_cmd(tags)))
         IN [fields |-> [last_commit |-> run_cmd(log),
                         last_commit_sha |-> run_cmd(rev),
                         last_tag |-> IF Truthy(run_cmd(tags)) /\ tl # <<>> THEN tl[1] ELSE None],
             queries |-> <<"log", "rev-parse", "tag">>]

\* clone = [proc, isdir]: the outcome of the clone command and whether the
\* target directory exists afterwards; log, rev, tags: the outcomes of the
\* three queries.  fields is the dict returned, queries the commands run
\* after the clone.
process_git(clone, log, rev, tags) ==
    IF run_cmd(clone.proc) = None /\ ~clone.isdir
    THEN [fields |-> ("error" :> E_clone_failed) @@ GitMeta0, queries |-> <<>>]
    ELSE LET commit_date == run_cmd(log)
             commit_sha == run_cmd(rev)
             tags_output == run_cmd(tags)
             tl == IF Truthy(tags_output) THEN NonBlankLines(SplitLines(tags_output)) ELSE <<>>
             m1 == SetIf(GitMeta0, "last_commit", commit_date)
             m2 == SetIf(m1, "last_commit_sha", commit_sha)
             m3 == IF tl # <<>> THEN [m2 EXCEPT !["last_tag"] = tl[1]] ELSE m2
         IN [fields |-> m3, queries |-> <<"log", "rev-parse", "tag">>]

----------------------------------------------------------------------------
(* URL pieces *)

T_json_timeline == <<"/","j","s","o","n","/","t","i","m","e","l","i","n","e","?","t","y","p","e","=","c","i","&","l","i","m","i","t","=","1">>
T_p == <<"&","p","=">>
T_timeline_n1 == <<"/","t","i","m","e","l","i","n","e","?","n","=","1">>
T_json_taglist == <<"/","j","s","o","n","/","t","a","g","l","i","s","t">>
T_taglist == <<"/","t","a","g","l","i","s","t">>
T_brlist == <<"/","b","r","l","i","s","t">>
T_api_repos == HTTPS \o <<"a","p","i",".">> \o W_github \o <<"/","r","e","p","o","s","/">>
T_commits == <<"/","c","o","m","m","i","t","s","?","p","e","r","_","p","a","g","e","=","1">>
T_path == <<"&","p","a","t","h","=">>
T_releases_latest == <<"/","r","e","l","e","a","s","e","s","/","l","a","t","e","s","t">>
GithubPrefix == HTTPS \o W_github \o SL

\* length of the longest prefix of s made of characters outside C
RunLenNot(s, C) ==
    LET stop == {i \in 1..Len(s) : s[i] \in C}
    IN IF stop = {} THEN Len(s) ELSE Min(stop) - 1

\* re.match(r'https://github\.com/([^/]+/[^/.]+)', url): group 1, or None
_parse_github_repo(url) ==
    IF ~StartsWith(url, GithubPrefix) THEN None
    ELSE LET rest == SubSeq(url, Len(GithubPrefix) + 1, Len(url))
             o == RunLenNot(rest, {"/"})
             rest2 == SubSeq(rest, o + 2, Len(rest))
             r == RunLenNot(rest2, {"/", "."})
         IN IF o = 0 \/ o = Len(rest) \/ r = 0 THEN None
            ELSE RStrip(SubSeq(rest, 1, o + 1 + r), "/")

\* re.search(r'[?&]name=([^&]+)', source_url): group 1, or None
_extract_module_path(source_url) ==
    LET hits == {i \in 1..Len(source_url) :
                    /\ source_url[i] \in {"?", "&"}
                    /\ OccursAt(source_url, W_name, i + 1)
                    /\ i + Len(W_name) + 1 <= Len(source_url)
                    /\ source_url[i + Len(W_name) + 1] # "&"}
    IN IF hits = {} THEN None
       ELSE LET from == Min(hits) + Len(W_name) + 1
                rest == SubSeq(source_url, from, Len(source_url))
            IN SubSeq(rest, 1, RunLenNot(rest, {"&"}))

MirrorTcllib == GithubPrefix \o W_tcltk \o SL \o W_tcllib
MirrorTcl == GithubPrefix \o W_tcltk \o SL \o W_tcl
MirrorTk == GithubPrefix \o W_tcltk \o SL \o W_tk
UrlFtp == RootCore \o <<"/","d","i","r">> \o Q_module
UrlTcllib == RootCore
UrlChisel == RootChisel \o <<"/","i","n","d","e","x">>
UrlGithub == MirrorTcllib
UrlOther == HTTPS \o <<"h","g",".","e","x","a","m","p","l","e","/","x">>

\* the URLs of the catalogs and of the mirror table
KnownUrls == {UrlFtp, UrlTcllib, UrlChisel, UrlGithub, UrlOther, MirrorTcllib, MirrorTcl, MirrorTk}

\* the three URL functions, tabulated over the known URLs
RepoOfUrl == [u \in KnownUrls |-> _parse_github_repo(u)]
BaseOfUrl == [u \in KnownUrls |-> extract_fossil_base(u)]
ModuleOfUrl == [u \in KnownUrls |-> _extract_module_path(u)]

RootTcl == HTTPS \o W_core \o SL \o W_tcl
RootTk == HTTPS \o W_core \o SL \o W_tk
FOSSIL_GIT_MIRRORS ==
    (RootCore :> MirrorTcllib) @@ (RootTcl :> MirrorTcl) @@ (RootTk :> MirrorTk)

----------------------------------------------------------------------------
(* parse_fossil_date_from_html and _pick_version_tag.  An HTML document is *)
(* <<"html", h>> where h records what the patterns of the program find in  *)
(* the markup: h.hist (pattern A, timelineHistDsp), h.cell (pattern B,     *)
(* timelineDateCell), h.iso (pattern C, the first bare ISO date-time),     *)
(* h.info and h.cparam (the first /info/<hash> and ?c=<hash> links), each  *)
(* a string or None, and h.links, the values of the timeline?t= and        *)
(* timeline?r= links in page order.                                        *)

NoFeatures == [hist |-> None, cell |-> None, iso |-> None, info |-> None, cparam |-> None,
               links |-> <<>>]

Features(body) == IF IsHtml(body) THEN body[2] ELSE NoFeatures

\* returns the pair (date, sha)
parse_fossil_date_from_html(html) ==
    LET h == Features(html)
        date == IF h.hist # None THEN h.hist
                ELSE IF h.cell # None THEN h.cell
                ELSE h.iso
        sha == IF h.info # None THEN Slice(h.info, 10)
               ELSE IF h.cparam # None THEN Slice(h.cparam, 10)
               ELSE None
    IN <<date, sha>>

UpperCase == <<"A","B","C","D","E","F","G","H","I","J","K","L","M","N","O","P","Q","R","S","T","U","V","W","X","Y","Z">>
LowerCase == <<"a","b","c","d","e","f","g","h","i","j","k","l","m","n","o","p","q","r","s","t","u","v","w","x","y","z">>

LowerChar(c) ==
    IF \E k \in DOMAIN UpperCase : UpperCase[k] = c
    THEN LowerCase[CHOOSE k \in DOMAIN UpperCase : UpperCase[k] = c]
    ELSE c

Lower(s) == [i \in 1..Len(s) |-> LowerChar(s[i])]

\* SKIP = re.compile(r'^(trunk|tip|release|branch|main|HEAD)$', re.IGNORECASE)
SkipNames ==
    { <<"t","r","u","n","k">>, <<"t","i","p">>, <<"r","e","l","e","a","s","e">>,
      <<"b","r","a","n","c","h">>, <<"m","a","i","n">>, <<"h","e","a","d">> }

_pick_version_tag(html) ==
    LET links == Features(html).links
        ok == {i \in 1..Len(links) :
                  Lower(Strip(links[i])) \notin SkipNames /\ HasDigit(Strip(links[i]))}
    IN IF ok = {} THEN None ELSE Strip(links[Min(ok)])

----------------------------------------------------------------------------
(* _github_api_commit.  resp is the pair (body, http_code) its curl call   *)
(* gave; a curl call that raised is the pair (None, 0).  The result is     *)
(* [exc, date, sha, reqs]: exc tells that an exception left the function.  *)

NoCommit(reqs) == [exc |-> FALSE, date |-> None, sha |-> None, reqs |-> reqs]
Raised(reqs) == [exc |-> TRUE, date |-> None, sha |-> None, reqs |-> reqs]

\* date.replace("T", " ").rstrip("Z")
IsoToPlain(d) == RStrip([i \in 1..Len(d) |-> IF d[i] = "T" THEN " " ELSE d[i]], "Z")

\* lines 400-413: the parse of a 200 response
GithubCommitParse(body, reqs) ==
    IF ~IsJson(body) THEN NoCommit(reqs)
    ELSE LET data == body[2]
         IN IF ~JTruthy(data) THEN NoCommit(reqs)
            ELSE IF data[1] = "obj" THEN NoCommit(reqs)
            ELSE IF data[1] # "arr" THEN Raised(reqs)
            ELSE LET commit == data[2][1]
                 IN IF ~IsObj(commit) THEN Raised(reqs)
                    ELSE LET shaj == DictGet(commit, "sha", JStr(<<>>))
                             c1 == DictGet(commit, "commit", JEmptyObj)
                         IN IF shaj[1] \notin {"str", "arr"} \/ ~IsObj(c1) THEN Raised(reqs)
                            ELSE LET cm == DictGet(c1, "committer", JEmptyObj)
                                     au == DictGet(c1, "author", JEmptyObj)
                                 IN IF ~IsObj(cm) THEN Raised(reqs)
                                    ELSE LET d1 == DictGet(cm, "date", JNull)
                                         IN IF ~JTruthy(d1) /\ ~IsObj(au) THEN Raised(reqs)
                                            ELSE LET d == IF JTruthy(d1) THEN d1
                                                          ELSE DictGet(au, "date", JNull)
                                                 IN IF JTruthy(d) /\ d[1] # "str" THEN Raised(reqs)
                                                    ELSE [exc |-> FALSE,
                                                          date |-> IF JTruthy(d) THEN IsoToPlain(d[2]) ELSE ToPy(d),
                                                          sha |-> Slice(shaj[2], 7),
                                                          reqs |-> reqs]

_github_api_commit(git_url, module_path, resp) ==
    LET repo == RepoOfUrl[git_url]
        api_url == T_api_repos \o repo \o T_commits
                     \o (IF Truthy(module_path) THEN T_path \o module_path ELSE <<>>)
        reqs == <<[tier |-> "mirror_commits", url |-> api_url]>>
    IN IF repo = None THEN NoCommit(<<>>)
       ELSE IF resp[2] = 403 THEN NoCommit(reqs)
       ELSE IF ~Truthy(resp[1]) \/ resp[2] # 200 THEN NoCommit(reqs)
       ELSE GithubCommitParse(resp[1], reqs)

----------------------------------------------------------------------------
(* _fetch_fossil_date.  api, html: the pairs (body, http_code) run_curl    *)
(* gave for the JSON timeline and for the HTML timeline page; mir: the     *)
(* pair the curl call of _github_api_commit gave.  The result holds the    *)
(* dict meta as the function leaves it, exc (an exception left the         *)
(* function), the requests issued, in order, and the locals fossil_date,   *)
(* fossil_sha, github_date, github_sha.                                    *)

\* lines 437-447: [exc, date, sha] from the body of a 200 response
FossilTimelineParse(body) ==
    LET none == [exc |-> FALSE, date |-> None, sha |-> None]
        raise == [exc |-> TRUE, date |-> None, sha |-> None]
    IN IF ~IsJson(body) THEN none
       ELSE LET data == body[2]
            IN IF ~IsObj(data) THEN raise
               ELSE LET payload == DictGet(data, "payload", JEmptyObj)
                    IN IF ~IsObj(payload) THEN raise
                       ELSE LET timeline == JOr(DictGet(payload, "timeline", JNull),
                                                DictGet(data, "timeline", JArr(<<>>)))
                            IN IF ~JTruthy(timeline) THEN none
                               ELSE IF timeline[1] # "arr" THEN raise
                               ELSE LET entry == timeline[2][1]
                                    IN IF ~IsObj(entry) THEN raise
                                       ELSE LET ts == JOr(DictGet(entry, "timestamp", JNull),
                                                          DictGet(entry, "mtime", JNull))
                                                sha == JOr(DictGet(entry, "uuid", JNull),
                                                           DictGet(entry, "hash", JNull))
                                            IN IF JTruthy(sha) /\ sha[1] \notin {"str", "arr"}
                                               THEN raise
                                               ELSE [exc |-> FALSE, date |-> ToPy(ts),
                                                     sha |-> IF JTruthy(sha) THEN Slice(sha[2], 10)
                                                             ELSE None]

DateResult(exc, meta, reqs, f, g) ==
    [exc |-> exc, meta |-> meta, reqs |-> reqs,
     fossil_date |-> f.date, fossil_sha |-> f.sha,
     github_date |-> g.date, github_sha |-> g.sha]

\* A slip: the result is stored but the function does not return
MergeDateNoReturn(meta, f, g) ==
    IF Truthy(g.date)
    THEN [decided |-> FALSE,
          meta |-> [meta EXCEPT !["last_commit"] = g.date, !["last_commit_sha"] = g.sha]]
    ELSE IF Truthy(f.date)
    THEN [decided |-> FALSE,
          meta |-> [meta EXCEPT !["last_commit"] = f.date, !["last_commit_sha"] = f.sha]]
    ELSE [decided |-> FALSE, meta |-> meta]

\* A slip: the native API result is preferred when both are present
MergeDateNativeFirst(meta, f, g) ==
    IF Truthy(f.date)
    THEN [decided |-> TRUE,
          meta |-> [meta EXCEPT !["last_commit"] = f.date, !["last_commit_sha"] = f.sha]]
    ELSE IF Truthy(g.date)
    THEN [decided |-> TRUE,
          meta |-> [meta EXCEPT !["last_commit"] = g.date, !["last_commit_sha"] = g.sha]]
    ELSE [decided |-> FALSE, meta |-> meta]

\* lines 461-474, the decision: f is what the JSON API gave, g what the
\* mirror gave; decided tells that the function returns here
MergeDate(meta, f, g) ==
    IF Truthy(g.date)
    THEN [decided |-> TRUE,
          meta |-> [meta EXCEPT !["last_commit"] = g.date, !["last_commit_sha"] = g.sha]]
    ELSE IF Truthy(f.date)
    THEN [decided |-> TRUE,
          meta |-> [meta EXCEPT !["last_commit"] = f.date, !["last_commit_sha"] = f.sha]]
    ELSE [decided |-> FALSE, meta |-> meta]

\* A slip: the return after a date was found is missing, the error is set
\* in any case
HtmlFallbackNoReturn(meta, html) ==
    LET parsed == IF Truthy(html[1]) /\ html[2] = 200
                  THEN parse_fossil_date_from_html(html[1])
                  ELSE <<None, None>>
    IN IF Truthy(parsed[1])
       THEN ("error" :> E_date_not_found) @@ ("last_commit_approximate" :> PyTrue)
              @@ [meta EXCEPT !["last_commit"] = parsed[1], !["last_commit_sha"] = parsed[2]]
       ELSE ("error" :> E_date_not_found) @@ meta

\* A slip: the fallback result is stored without the approximate mark
HtmlFallbackUnmarked(meta, html) ==
    LET parsed == IF Truthy(html[1]) /\ html[2] = 200
                  THEN parse_fossil_date_from_html(html[1])
                  ELSE <<None, None>>
    IN IF Truthy(parsed[1])
       THEN [meta EXCEPT !["last_commit"] = parsed[1], !["last_commit_sha"] = parsed[2]]
       ELSE ("error" :> E_date_not_found) @@ meta

\* lines 478-488: the whole-repository HTML timeline, last resort
HtmlFallback(meta, html) ==
    LET parsed == IF Truthy(html[1]) /\ html[2] = 200
                  THEN parse_fossil_date_from_html(html[1])
                  ELSE <<None, None>>
    IN IF Truthy(parsed[1])
       THEN ("last_commit_approximate" :> PyTrue)
              @@ [meta EXCEPT !["last_commit"] = parsed[1], !["last_commit_sha"] = parsed[2]]
       ELSE ("error" :> E_date_not_found) @@ meta

\* line 478: f"{base}/timeline?n=1"
HtmlTimelineUrl(base, module_path) == base \o T_timeline_n1

\* A slip: the module filter is left out of the JSON timeline request
JsonTimelineUrlNoModule(base, module_path) == base \o T_json_timeline

\* lines 432-434
JsonTimelineUrl(base, module_path) ==
    base \o T_json_timeline \o (IF Truthy(module_path) THEN T_p \o module_path ELSE <<>>)

_fetch_fossil_date(base, module_path, meta, api, mir, html) ==
    LET req1 == <<[tier |-> "json_timeline", url |-> JsonTimelineUrl(base, module_path)]>>
        f == IF Truthy(api[1]) /\ api[2] = 200 THEN FossilTimelineParse(api[1])
             ELSE [exc |-> FALSE, date |-> None, sha |-> None]
    IN IF f.exc THEN DateResult(TRUE, meta, req1, f, NoCommit(<<>>))
       ELSE
       LET g == IF base \in DOMAIN FOSSIL_GIT_MIRRORS
                THEN _github_api_commit(FOSSIL_GIT_MIRRORS[base], module_path, mir)
                ELSE NoCommit(<<>>)
           req2 == req1 \o g.reqs
           merged == MergeDate(meta, f, g)
       IN IF g.exc THEN DateResult(TRUE, meta, req2, f, g)
          ELSE IF merged.decided THEN DateResult(FALSE, merged.meta, req2, f, g)
          ELSE DateResult(FALSE, HtmlFallback(meta, html),
                          req2 \o <<[tier |-> "html_timeline",
                                     url |-> HtmlTimelineUrl(base, module_path)]>>,
                          f, g)

----------------------------------------------------------------------------
(* _fetch_fossil_tag.  jtags, htags, hbr: the pairs run_curl gave for the  *)
(* JSON tag list, the HTML tag list and the HTML branch list; mtag: what   *)
(* _latest_tag_from_git_mirror returns for the mirror.                     *)

\* lines 501-507: [exc, tag] from the body of a 200 response
FossilTagParse(body) ==
    LET none == [exc |-> FALSE, tag |-> None]
        raise == [exc |-> TRUE, tag |-> None]
    IN IF ~IsJson(body) THEN none
       ELSE LET data == body[2]
            IN IF ~IsObj(data) THEN raise
               ELSE LET payload == DictGet(data, "payload", JEmptyObj)
                    IN IF ~IsObj(payload) THEN raise
                       ELSE LET raw_tags == JOr(DictGet(payload, "tags", JNull),
                                                DictGet(data, "tags", JArr(<<>>)))
                            IN IF ~JTruthy(raw_tags) THEN none
                               ELSE IF raw_tags[1] # "arr" THEN raise
                               ELSE LET first == raw_tags[2][1]
                                    IN IF ~IsObj(first) THEN raise
                                       ELSE [exc |-> FALSE,
                                             tag |-> ToPy(JOr(DictGet(first, "name", JNull),
                                                              DictGet(first, "tagname", JNull)))]

\* A slip: the loop over the two pages has no break
_fetch_fossil_tag_no_break(base, meta, jtags, htags, hbr, mtag) ==
    LET req1 == <<[tier |-> "json_taglist", url |-> base \o T_json_taglist]>>
        j == IF Truthy(jtags[1]) /\ jtags[2] = 200 THEN FossilTagParse(jtags[1])
             ELSE [exc |-> FALSE, tag |-> None]
    IN IF j.exc THEN [exc |-> TRUE, meta |-> meta, reqs |-> req1]
       ELSE
       LET t2 == IF Truthy(htags[1]) /\ htags[2] = 200 THEN _pick_version_tag(htags[1]) ELSE None
           t3 == IF Truthy(hbr[1]) /\ hbr[2] = 200 THEN _pick_version_tag(hbr[1]) ELSE t2
           tagA == IF Truthy(j.tag) THEN j.tag ELSE t3
           reqA == IF Truthy(j.tag) THEN req1
                   ELSE req1 \o <<[tier |-> "html_taglist", url |-> base \o T_taglist],
                                  [tier |-> "html_brlist", url |-> base \o T_brlist]>>
           useMirror == ~Truthy(tagA) /\ base \in DOMAIN FOSSIL_GIT_MIRRORS
           tag == IF useMirror THEN mtag ELSE tagA
           reqs == IF useMirror
                   THEN reqA \o <<[tier |-> "git_mirror", url |-> FOSSIL_GIT_MIRRORS[base]]>>
                   ELSE reqA
       IN [exc |-> FALSE,
           meta |-> IF Truthy(tag) THEN [meta EXCEPT !["last_tag"] = tag] ELSE meta,
           reqs |-> reqs]

_fetch_fossil_tag(base, meta, jtags, htags, hbr, mtag) ==
    LET req1 == <<[tier |-> "json_taglist", url |-> base \o T_json_taglist]>>
        j == IF Truthy(jtags[1]) /\ jtags[2] = 200 THEN FossilTagParse(jtags[1])
             ELSE [exc |-> FALSE, tag |-> None]
    IN IF j.exc THEN [exc |-> TRUE, meta |-> meta, reqs |-> req1]
       ELSE
       LET t2 == IF Truthy(htags[1]) /\ htags[2] = 200 THEN _pick_version_tag(htags[1]) ELSE None
           t3 == IF Truthy(hbr[1]) /\ hbr[2] = 200 THEN _pick_version_tag(hbr[1]) ELSE None
           reqTag == <<[tier |-> "html_taglist", url |-> base \o T_taglist]>>
           reqBr == <<[tier |-> "html_brlist", url |-> base \o T_brlist]>>
           tagA == IF Truthy(j.tag) THEN j.tag
                   ELSE IF Truthy(t2) THEN t2
                   ELSE t3
           reqA == IF Truthy(j.tag) THEN req1
                   ELSE IF Truthy(t2) THEN req1 \o reqTag
                   ELSE req1 \o reqTag \o reqBr
           useMirror == ~Truthy(tagA) /\ base \in DOMAIN FOSSIL_GIT_MIRRORS
           tag == IF useMirror THEN mtag ELSE tagA
           reqs == IF useMirror
                   THEN reqA \o <<[tier |-> "git_mirror", url |-> FOSSIL_GIT_MIRRORS[base]]>>
                   ELSE reqA
       IN [exc |-> FALSE,
           meta |-> IF Truthy(tag) THEN [meta EXCEPT !["last_tag"] = tag] ELSE meta,
           reqs |-> reqs]

----------------------------------------------------------------------------
(* _fetch_github_repo_info.  cache: _github_repo_cache before the call;    *)
(* rrepo, rrel: the pairs run_curl gives for the repository endpoint and   *)
(* for the latest-release endpoint.  The result holds the dict returned,   *)
(* the cache afterwards, the requests issued and exc.                      *)

NoGithubInfo == [archived |-> None, latest_release |-> None]

\* lines 130-135 and 143-148: data.get(key, default) of a 200 response;
\* [exc, val], val is None when the response is not used
GithubField(resp, key, default) ==
    IF ~(Truthy(resp[1]) /\ resp[2] = 200) \/ ~IsJson(resp[1])
    THEN [exc |-> FALSE, val |-> None]
    ELSE IF ~IsObj(resp[1][2]) THEN [exc |-> TRUE, val |-> None]
    ELSE [exc |-> FALSE, val |-> ToPy(DictGet(resp[1][2], key, default))]

\* A slip: the result is not stored
GithubCacheStoreNothing(cache, repo, result) == cache

\* line 151
GithubCacheStore(cache, repo, result) == (repo :> result) @@ cache

_fetch_github_repo_info(github_url, cache, rrepo, rrel) ==
    LET repo == RepoOfUrl[github_url]
    IN IF ~Truthy(repo)
       THEN [exc |-> FALSE, info |-> NoGithubInfo, cache |-> cache, reqs |-> <<>>]
       ELSE IF repo \in DOMAIN cache
       THEN [exc |-> FALSE, info |-> cache[repo], cache |-> cache, reqs |-> <<>>]
       ELSE LET req1 == <<[tier |-> "github_repo", url |-> T_api_repos \o repo]>>
                req2 == req1 \o <<[tier |-> "github_release",
                                   url |-> T_api_repos \o repo \o T_releases_latest]>>
                a == GithubField(rrepo, "archived", JBool(FALSE))
                r == GithubField(rrel, "tag_name", JNull)
                result == [archived |-> a.val, latest_release |-> r.val]
            IN IF a.exc THEN [exc |-> TRUE, info |-> NoGithubInfo, cache |-> cache, reqs |-> req1]
               ELSE IF r.exc
               THEN [exc |-> TRUE, info |-> NoGithubInfo, cache |-> cache, reqs |-> req2]
               ELSE [exc |-> FALSE, info |-> result,
                     cache |-> GithubCacheStore(cache, repo, result), reqs |-> req2]

----------------------------------------------------------------------------
(* check_url_reachable: head is the outcome of its curl -I command, whose  *)
(* standard output is the status code alone.  Returns (reachable, code).   *)

check_url_reachable(head) ==
    IF head.kind # "completed" THEN <<PyFalse, 0>>
    ELSE LET code_str == Strip(head.stdout)
             http_code == IF IsDigitStr(code_str) THEN ToInt(code_str) ELSE 0
         IN <<IF 200 <= http_code /\ http_code < 400 THEN PyTrue ELSE PyFalse, http_code>>

----------------------------------------------------------------------------
(* What the outside world can answer.  Dates, hashes and tag names are     *)
(* short; the operations of the program on them (strip, slice, replace)    *)
(* are applied to their characters.                                        *)

Completed(code, out) == [kind |-> "completed", returncode |-> code, stdout |-> out]
TimedOut == [kind |-> "TimeoutExpired", returncode |-> 0, stdout |-> <<>>]

JsonDoc(j) == <<"json", j>>
HtmlDoc(h) == <<"html", h>>
\* a non-empty body that is neither JSON nor a Fossil page
JunkDoc == <<"junk", <<>>>>

D_fossil == <<"2","0","2","1">>
H_fossil == <<"f","0","f","1","f","2","f","3","f","4","f","5">>
D_mirror_iso == <<"2","0","2","2","T","0","9","Z">>
D_mirror == <<"2","0","2","2"," ","0","9">>
H_mirror == <<"a","0","a","1","a","2","a","3","a","4">>
D_html == <<"2","0","2","3">>
H_html == <<"c","0","c","1","c","2","c","3","c","4","c","5">>
D_git == <<"2","0","2","4">>
H_git == <<"d","0","d","1","d","2","d">>
Tag_fossil == <<"1","-","2","0","-","1">>
Tag_git == <<"v","2",".","0">>
Tag_rel == <<"v","3",".","1">>

\* the JSON timeline of Fossil
ApiEntry ==
    JsonDoc(JObj("payload" :> JObj("timeline" :>
        JArr(<<JObj(("timestamp" :> JStr(D_fossil)) @@ ("uuid" :> JStr(H_fossil)))>>))))
ApiLegacyEntry ==
    JsonDoc(JObj("timeline" :>
        JArr(<<JObj(("mtime" :> JStr(D_fossil)) @@ ("hash" :> JStr(H_fossil)))>>)))
ApiEmpty == JsonDoc(JObj("payload" :> JObj("timeline" :> JArr(<<>>))))
ApiNull == JsonDoc(JNull)
ApiTopArray == JsonDoc(JArr(<<>>))
ApiBadEntry == JsonDoc(JObj("payload" :> JObj("timeline" :> JArr(<<JNull>>))))

ApiYielding == {<<ApiEntry, 200>>, <<ApiLegacyEntry, 200>>}
ApiResults ==
    ApiYielding \cup
    { <<None, 0>>, <<<<>>, 0>>, <<JunkDoc, 404>>, <<JunkDoc, 500>>, <<JunkDoc, 200>>,
      <<ApiEntry, 500>>, <<ApiEmpty, 200>>, <<ApiNull, 200>>, <<ApiTopArray, 200>>,
      <<ApiBadEntry, 200>> }

\* the commit list of the GitHub API
MirrorCommit ==
    JsonDoc(JArr(<<JObj(("sha" :> JStr(H_mirror))
                      @@ ("commit" :> JObj("committer" :> JObj("date" :> JStr(D_mirror_iso)))))>>))
MirrorAuthorCommit ==
    JsonDoc(JArr(<<JObj(("sha" :> JStr(H_mirror))
                      @@ ("commit" :> JObj(("committer" :> JEmptyObj)
                                             @@ ("author" :> JObj("date" :> JStr(D_mirror_iso))))))>>))
MirrorMessage == JsonDoc(JObj("message" :> JStr(<<"n","o">>)))
MirrorNoCommits == JsonDoc(JArr(<<>>))
MirrorBadEntry == JsonDoc(JArr(<<JNull>>))

MirrorYielding == {<<MirrorCommit, 200>>, <<MirrorAuthorCommit, 200>>}
MirrorResults ==
    MirrorYielding \cup
    { <<None, 0>>, <<JunkDoc, 403>>, <<JunkDoc, 404>>, <<JunkDoc, 200>>, <<MirrorCommit, 500>>,
      <<MirrorMessage, 200>>, <<MirrorNoCommits, 200>>, <<MirrorBadEntry, 200>> }

\* the HTML timeline of Fossil
TimelinePage == HtmlDoc([NoFeatures EXCEPT !.hist = D_html, !.info = H_html])
TimelineBarePage == HtmlDoc([NoFeatures EXCEPT !.iso = D_html, !.cparam = H_html])
EmptyPage == HtmlDoc(NoFeatures)

HtmlYielding == {<<TimelinePage, 200>>, <<TimelineBarePage, 200>>}
HtmlResults ==
    HtmlYielding \cup {<<None, 0>>, <<JunkDoc, 500>>, <<TimelinePage, 404>>, <<EmptyPage, 200>>}

\* the answers main() is run against: every tier fails, succeeds or, where
\* the code can, raises
MainApiResults == {<<None, 0>>, <<ApiNull, 200>>, <<ApiEntry, 200>>}
MainMirrorResults == {<<JunkDoc, 403>>, <<MirrorCommit, 200>>}
MainHtmlResults == {<<JunkDoc, 500>>, <<TimelinePage, 200>>}

\* tag lists
TagListDoc == JsonDoc(JObj("payload" :> JObj("tags" :> JArr(<<JObj("name" :> JStr(Tag_fossil))>>))))
TagPage == HtmlDoc([NoFeatures EXCEPT !.links = << <<"t","r","u","n","k">>, Tag_fossil >>])
MainJsonTagResults == {<<None, 0>>, <<TagListDoc, 200>>}
MainHtmlTagResults == {<<JunkDoc, 500>>, <<TagPage, 200>>}
MainMirrorTagRuns ==
    { [kind |-> "TimeoutExpired", returncode |-> 0, refs |-> <<>>],
      [kind |-> "completed", returncode |-> 0,
       refs |-> <<[kind |-> "tag", tag |-> T_1_9_0], [kind |-> "tag", tag |-> T_1_21_0]>>] }

\* _latest_tag_from_git_mirror on each of these runs
MirrorTagOf ==
    [ls \in MainMirrorTagRuns |-> _latest_tag_from_git_mirror(run_cmd(LsRemoteProc(ls)))]

\* GitHub repository and latest-release endpoints, as pairs of answers
RepoArchived == JsonDoc(JObj("archived" :> JBool(TRUE)))
RepoPlain == JsonDoc(JEmptyObj)
RepoList == JsonDoc(JArr(<<>>))
ReleaseDoc == JsonDoc(JObj("tag_name" :> JStr(Tag_rel)))
GithubAnswers ==
    { << <<None, 0>>, <<JunkDoc, 404>> >>,
      << <<RepoArchived, 200>>, <<ReleaseDoc, 200>> >>,
      << <<RepoPlain, 200>>, <<JunkDoc, 404>> >>,
      << <<RepoList, 200>>, <<JunkDoc, 404>> >> }

\* the HEAD probe
HeadRuns == {Completed(0, <<"2","0","0">>), TimedOut}

\* git commands
NL == <<"\n">>
CloneRuns ==
    { [proc |-> Completed(0, <<>>), isdir |-> TRUE],
      [proc |-> Completed(128, <<>>), isdir |-> FALSE],
      [proc |-> TimedOut, isdir |-> TRUE] }
LogRuns == {Completed(0, D_git \o NL), Completed(0, <<>>), Completed(128, <<>>)}
RevParseRuns == {Completed(0, H_git \o NL), Completed(0, NL), TimedOut}
TagRuns ==
    { Completed(0, Tag_git \o NL \o <<" ">> \o NL \o Tag_fossil \o NL), Completed(0, <<>>),
      Completed(0, <<" ">> \o NL), Completed(128, Tag_git) }

GitAnswer(clone, log, rev, tags) == [clone |-> clone, log |-> log, rev |-> rev, tags |-> tags]
GitAnswers == {GitAnswer(c, l, r, t) : c \in CloneRuns, l \in LogRuns, r \in RevParseRuns, t \in TagRuns}
MainGitAnswers ==
    { GitAnswer([proc |-> Completed(128, <<>>), isdir |-> FALSE],
                Completed(128, <<>>), TimedOut, Completed(0, <<>>)),
      GitAnswer([proc |-> Completed(0, <<>>), isdir |-> TRUE],
                Completed(0, D_git \o NL), Completed(0, H_git \o NL), Completed(0, <<>>)),
      GitAnswer([proc |-> Completed(0, <<>>), isdir |-> TRUE],
                Completed(128, <<>>), TimedOut, Completed(0, Tag_git \o NL)) }

----------------------------------------------------------------------------
(* _fetch_fossil_date applied to every combination of answers: the root    *)
(* with a registered mirror and the one without, with and without a module *)
(* path.                                                                   *)

DateMeta0 == [last_commit |-> None, last_commit_sha |-> None]

DateInputs ==
    [base : {RootCore, RootChisel}, module_path : {None, W_modules \o SL \o W_ftp},
     api : ApiResults, mir : MirrorResults, html : HtmlResults]

InitDate ==
    /\ stage = "date_input"
    /\ arg \in DateInputs
    /\ ret = <<>>
    /\ RunIdle

FetchFossilDate ==
    /\ stage = "date_input"
    /\ ret' = <<_fetch_fossil_date(arg.base, arg.module_path, DateMeta0,
                                   arg.api, arg.mir, arg.html)>>
    /\ stage' = "date_done"
    /\ UNCHANGED <<arg, mainvars>>

NextDate == FetchFossilDate

SpecDate == InitDate /\ [][NextDate]_vars

\* what the answers hold, read off the answers themselves
NativeYields == arg.api \in ApiYielding
MirrorYields == arg.base \in DOMAIN FOSSIL_GIT_MIRRORS /\ arg.mir \in MirrorYielding

\* C2: when the mirror yields a date the result is the mirror's date and
\* seven-character hash, whether or not the JSON timeline yields one too;
\* when only the JSON timeline yields a date the result is its date and
\* ten-character hash.
MirrorWins ==
    (stage = "date_done" /\ ~ret[1].exc) =>
        /\ MirrorYields =>
             /\ ret[1].meta.last_commit = D_mirror
             /\ ret[1].meta.last_commit_sha = Slice(H_mirror, 7)
        /\ (NativeYields /\ ~MirrorYields) =>
             /\ ret[1].meta.last_commit = D_fossil
             /\ ret[1].meta.last_commit_sha = Slice(H_fossil, 10)

\* both sources yield a date and the mirror's is the one kept
MirrorWinsWitness ==
    /\ stage = "date_done"
    /\ NativeYields /\ MirrorYields
    /\ ret[1].fossil_date = D_fossil
    /\ ret[1].meta.last_commit = D_mirror

HtmlYields == arg.html \in HtmlYielding

\* C14: when _fetch_fossil_date returns, meta has error = "date_not_found"
\* exactly when neither the JSON timeline nor the mirror nor the HTML page
\* held a date; then last_commit and last_commit_sha are null and
\* last_commit_approximate is not set; otherwise last_commit is non-null
\* and there is no error key.
DateNotFoundIffNoTier ==
    (stage = "date_done" /\ ~ret[1].exc) =>
        LET meta == ret[1].meta
            any == NativeYields \/ MirrorYields \/ HtmlYields
        IN /\ ("error" \in DOMAIN meta) <=> ~any
           /\ ~any => meta = [last_commit |-> None, last_commit_sha |-> None,
                              error |-> E_date_not_found]
           /\ any => meta.last_commit # None

\* every tier answered and none held a date
DateNotFoundIffNoTierWitness ==
    /\ stage = "date_done"
    /\ ~NativeYields /\ ~MirrorYields /\ ~HtmlYields
    /\ Len(ret[1].reqs) = 3
    /\ ret[1].meta.error = E_date_not_found

\* the tiers requested, in order
DateTiers == [i \in DOMAIN ret[1].reqs |-> ret[1].reqs[i].tier]

\* C17: the JSON timeline is the first request of _fetch_fossil_date and is
\* requested once; the HTML timeline page is requested only as the last
\* request and only when neither the JSON timeline nor the mirror held a
\* date, and in that case it is requested.
HtmlTimelineLast ==
    stage = "date_done" =>
        /\ DateTiers[1] = "json_timeline"
        /\ \A i \in DOMAIN DateTiers :
              /\ i > 1 => DateTiers[i] # "json_timeline"
              /\ DateTiers[i] = "html_timeline" =>
                    (i = Len(DateTiers) /\ ~NativeYields /\ ~MirrorYields)
        /\ (~ret[1].exc /\ ~NativeYields /\ ~MirrorYields) =>
              DateTiers[Len(DateTiers)] = "html_timeline"

\* the JSON timeline fails, the mirror holds the date, and the HTML page,
\* which holds one too, is not requested
HtmlTimelineLastWitness ==
    /\ stage = "date_done"
    /\ ~NativeYields /\ MirrorYields /\ HtmlYields
    /\ DateTiers = <<"json_timeline", "mirror_commits">>

\* the number of requests of the call that went to the mirror's commit API
MirrorQueries == Cardinality({i \in DOMAIN DateTiers : DateTiers[i] = "mirror_commits"})

\* C22: every execution of _fetch_fossil_date queries the mirror's commit
\* API exactly once when the root has a registered mirror, whether or not
\* the JSON timeline held a date, and never when it has none.
MirrorQueriedIffRegistered ==
    stage = "date_done" =>
        MirrorQueries = IF arg.base \in DOMAIN FOSSIL_GIT_MIRRORS THEN 1 ELSE 0

\* the same for the executions that the JSON timeline step does not leave
\* by an exception
MirrorQueriedUnlessJsonRaises ==
    (stage = "date_done" /\ ~(ret[1].exc /\ Len(DateTiers) = 1)) =>
        MirrorQueries = IF arg.base \in DOMAIN FOSSIL_GIT_MIRRORS THEN 1 ELSE 0

\* 200 answers of the JSON timeline that hold no usable timeline: not JSON,
\* or JSON of another shape than the one the code reads
ApiMisshapen ==
    {<<JunkDoc, 200>>, <<ApiNull, 200>>, <<ApiTopArray, 200>>, <<ApiBadEntry, 200>>}

\* C11: whatever the JSON timeline and the mirror answer, malformed or of an
\* unexpected shape, no exception leaves _fetch_fossil_date, and after an
\* unusable JSON timeline answer the cascade goes on to its next tier.
ParseFailureStaysLocal ==
    stage = "date_done" =>
        /\ ~ret[1].exc
        /\ arg.api \in ApiMisshapen => Len(ret[1].reqs) >= 2

----------------------------------------------------------------------------
(* _fetch_fossil_tag applied to every combination of answers, for the root *)
(* with a registered mirror and for the one without.                       *)

TagListLegacy == JsonDoc(JObj("tags" :> JArr(<<JObj("tagname" :> JStr(Tag_rel))>>)))
TagListEmpty == JsonDoc(JObj("payload" :> JObj("tags" :> JArr(<<>>))))
TagListNoName == JsonDoc(JObj("payload" :> JObj("tags" :> JArr(<<JEmptyObj>>))))
TagListNames == JsonDoc(JObj("payload" :> JObj("tags" :> JArr(<<JStr(Tag_fossil)>>))))
Tag_branch == <<"1","-","9","-","0">>
Tag_mirrored == <<"1","-","2","1","-","0">>
BranchPage == HtmlDoc([NoFeatures EXCEPT !.links = << <<"t","i","p">>, Tag_branch >>])
TrunkPage == HtmlDoc([NoFeatures EXCEPT !.links = << <<"t","r","u","n","k">> >>])

JsonTagYielding == {<<TagListDoc, 200>>, <<TagListLegacy, 200>>}
JsonTagRaising == {<<TagListNames, 200>>}
JsonTagResults ==
    JsonTagYielding \cup JsonTagRaising \cup
    {<<None, 0>>, <<TagListDoc, 500>>, <<JunkDoc, 200>>, <<TagListEmpty, 200>>,
     <<TagListNoName, 200>>}
HtmlTagYielding == {<<TagPage, 200>>, <<BranchPage, 200>>}
HtmlTagResults ==
    HtmlTagYielding \cup {<<None, 0>>, <<TagPage, 404>>, <<TrunkPage, 200>>}

TagInputs ==
    [base : {RootCore, RootChisel}, jtags : JsonTagResults, htags : HtmlTagResults,
     hbr : HtmlTagResults, mtag : {None, Tag_mirrored}]

InitFossilTag ==
    /\ stage = "tag_input"
    /\ arg \in TagInputs
    /\ ret = <<>>
    /\ RunIdle

FetchFossilTag ==
    /\ stage = "tag_input"
    /\ ret' = <<_fetch_fossil_tag(arg.base, [last_tag |-> None],
                                  arg.jtags, arg.htags, arg.hbr, arg.mtag)>>
    /\ stage' = "tag_done"
    /\ UNCHANGED <<arg, mainvars>>

NextFossilTag == FetchFossilTag

SpecFossilTag == InitFossilTag /\ [][NextFossilTag]_vars

TagTierOrder == <<"json_taglist", "html_taglist", "html_brlist", "git_mirror">>

\* the tag each tier holds, read off the answers themselves; None when the
\* tier holds none
TagHeldBy(tier) ==
    CASE tier = "json_taglist" ->
           IF arg.jtags = <<TagListDoc, 200>> THEN Tag_fossil
           ELSE IF arg.jtags = <<TagListLegacy, 200>> THEN Tag_rel ELSE None
      [] tier = "html_taglist" ->
           IF arg.htags = <<TagPage, 200>> THEN Tag_fossil
           ELSE IF arg.htags = <<BranchPage, 200>> THEN Tag_branch ELSE None
      [] tier = "html_brlist" ->
           IF arg.hbr = <<TagPage, 200>> THEN Tag_fossil
           ELSE IF arg.hbr = <<BranchPage, 200>> THEN Tag_branch ELSE None
      [] tier = "git_mirror" -> arg.mtag

TagTiers == [i \in DOMAIN ret[1].reqs |-> ret[1].reqs[i].tier]

\* C18: the tiers requested by _fetch_fossil_tag are an initial part of JSON
\* tag list, HTML tag list, HTML branch list, Git mirror; every tier before
\* the last one requested held no tag; the requests end before the fourth
\* tier only at a tier that holds a tag or, after the branch list, at a
\* root with no registered mirror; last_tag is the tag of the last tier
\* requested, None when it holds none, and the dict gets no other key.
TagCascadeOrder ==
    stage = "tag_done" =>
        LET n == Len(TagTiers) IN
        /\ n \in 1..4
        /\ TagTiers = SubSeq(TagTierOrder, 1, n)
        /\ \A i \in 1..(n - 1) : TagHeldBy(TagTiers[i]) = None
        /\ n = 4 => arg.base \in DOMAIN FOSSIL_GIT_MIRRORS
        /\ ~ret[1].exc =>
              /\ n < 4 => \/ TagHeldBy(TagTiers[n]) # None
                          \/ n = 3 /\ arg.base \notin DOMAIN FOSSIL_GIT_MIRRORS
              /\ ret[1].meta = [last_tag |-> TagHeldBy(TagTiers[n])]

\* the JSON tag list holds no tag, the HTML tag list does, and neither the
\* branch list nor the mirror, which hold other tags, is requested
TagCascadeOrderWitness ==
    /\ stage = "tag_done"
    /\ arg.base = RootCore
    /\ arg.jtags = <<TagListEmpty, 200>>
    /\ arg.htags = <<TagPage, 200>>
    /\ arg.hbr = <<BranchPage, 200>>
    /\ arg.mtag = Tag_mirrored
    /\ TagTiers = <<"json_taglist", "html_taglist">>
    /\ ret[1].meta.last_tag = Tag_fossil

\* nothing holds a tag at the root with no registered mirror
TagCascadeOrderNoTag ==
    /\ stage = "tag_done"
    /\ arg.base = RootChisel
    /\ Len(TagTiers) = 3
    /\ ret[1].meta.last_tag = None

----------------------------------------------------------------------------
(* process_git applied to every combination of command outcomes *)

InitGit ==
    /\ stage = "git_input"
    /\ arg \in GitAnswers
    /\ ret = <<>>
    /\ RunIdle

ProcessGit ==
    /\ stage = "git_input"
    /\ ret' = <<process_git(arg.clone, arg.log, arg.rev, arg.tags)>>
    /\ stage' = "git_done"
    /\ UNCHANGED <<arg, mainvars>>

NextGit == ProcessGit

SpecGit == InitGit /\ [][NextGit]_vars

\* the command ended with status 0 and printed something besides blanks
ReturnedData(proc) ==
    /\ proc.kind = "completed" /\ proc.returncode = 0
    /\ \E i \in DOMAIN proc.stdout : proc.stdout[i] \notin Whitespace

\* the clone left something to query
Cloned(clone) == (clone.proc.kind = "completed" /\ clone.proc.returncode = 0) \/ clone.isdir

\* C8: after a clone that left a repository, each of last_commit,
\* last_commit_sha and last_tag is non-null exactly when its own command
\* returned data, all three commands are run, and there is no error key.
GitQueriesIndependent ==
    (stage = "git_done" /\ Cloned(arg.clone)) =>
        LET fields == ret[1].fields
        IN /\ (fields.last_commit # None) <=> ReturnedData(arg.log)
           /\ (fields.last_commit_sha # None) <=> ReturnedData(arg.rev)
           /\ (fields.last_tag # None) <=> ReturnedData(arg.tags)
           /\ ret[1].queries = <<"log", "rev-parse", "tag">>
           /\ "error" \notin DOMAIN fields

\* commits but no tags: date and hash, null tag, no error key
GitQueriesIndependentWitness ==
    /\ stage = "git_done"
    /\ Cloned(arg.clone)
    /\ ReturnedData(arg.log) /\ ReturnedData(arg.rev) /\ ~ReturnedData(arg.tags)
    /\ ret[1].fields = [last_commit |-> D_git, last_commit_sha |-> H_git, last_tag |-> None]

\* C12: when the clone command gives no result and the target directory is
\* absent, process_git returns error = "clone_failed" with last_commit,
\* last_commit_sha and last_tag null, and runs none of the three queries.
CloneFailureStops ==
    (stage = "git_done" /\ ~Cloned(arg.clone)) =>
        /\ ret[1].fields = [last_commit |-> None, last_commit_sha |-> None, last_tag |-> None,
                            error |-> E_clone_failed]
        /\ ret[1].queries = <<>>

\* a failed clone, although every query would have returned data
CloneFailureStopsWitness ==
    /\ stage = "git_done"
    /\ ~Cloned(arg.clone)
    /\ ReturnedData(arg.log) /\ ReturnedData(arg.rev) /\ ReturnedData(arg.tags)
    /\ ret[1].fields.error = E_clone_failed
    /\ ret[1].fields.last_commit = None

----------------------------------------------------------------------------
(* The clone directories of a run.  Each call of process_git names its     *)
(* directory git-<seconds>-<random> under temp_base; two calls can draw    *)
(* the same name.  A call is [name, clone, raises, rmtree_ok]: the name    *)
(* drawn, the outcome of the clone, whether an exception is raised inside  *)
(* the try block, and whether shutil.rmtree manages to remove the          *)
(* directory.  ret holds the index k of the call, the set dirs of clone    *)
(* directories that exist, and leftover: some removal has failed.          *)

MaxClones == 2

DirNames == {"git-1-7", "git-1-8"}

CloneCalls == [name : DirNames, clone : CloneRuns, raises : BOOLEAN, rmtree_ok : BOOLEAN]

CloneInputs == UNION {[1..n -> CloneCalls] : n \in 1..MaxClones}

InitClone ==
    /\ stage = "clone_loop"
    /\ arg \in CloneInputs
    /\ ret = [k |-> 1, dirs |-> {}, leftover |-> FALSE, path |-> "none"]
    /\ RunIdle

\* lines 184-198: the directory is named and the clone command is run
CloneInto ==
    /\ stage = "clone_loop"
    /\ ret.k <= Len(arg)
    /\ ret' = [ret EXCEPT !.dirs = IF arg[ret.k].clone.isdir THEN @ \cup {arg[ret.k].name} ELSE @,
                          !.path = "none"]
    /\ stage' = "cloned"
    /\ UNCHANGED <<arg, mainvars>>

\* the way process_git is left
ExitPath(call, exists) ==
    IF run_cmd(call.clone.proc) = None /\ ~exists THEN "clone_failed"
    ELSE IF call.raises THEN "exception"
    ELSE "queried"

\* A slip: the directory is removed at the end of the try block only
RemoveCloneDirAfterQueries(dirs, call, path) ==
    IF call.name \in dirs /\ call.rmtree_ok /\ path = "queried" THEN dirs \ {call.name} ELSE dirs

\* lines 222-224: finally, on every path
RemoveCloneDir(dirs, call, path) ==
    IF call.name \in dirs /\ call.rmtree_ok THEN dirs \ {call.name} ELSE dirs

\* lines 199-226: the rest of process_git, up to its return
LeaveGit ==
    /\ stage = "cloned"
    /\ LET call == arg[ret.k]
           path == ExitPath(call, call.name \in ret.dirs)
           left == RemoveCloneDir(ret.dirs, call, path)
       IN ret' = [k |-> ret.k + 1, dirs |-> left, path |-> path,
                  leftover |-> ret.leftover \/ (call.name \in ret.dirs /\ ~call.rmtree_ok)]
    /\ stage' = "clone_loop"
    /\ UNCHANGED <<arg, mainvars>>

NextClone == CloneInto \/ LeaveGit

SpecClone == InitClone /\ [][NextClone]_vars

\* C13: as long as no removal has failed, no clone directory exists when
\* process_git is entered or has returned, whatever the path it was left
\* by, and at most one exists while it runs.
CloneDirScoped ==
    (stage \in {"clone_loop", "cloned"} /\ ~ret.leftover) =>
        /\ stage = "clone_loop" => ret.dirs = {}
        /\ stage = "cloned" => ret.dirs \subseteq {arg[ret.k].name}

\* a second call starts with no directory, after a first one that cloned
\* and was left by an exception
CloneDirScopedWitness ==
    /\ stage = "clone_loop"
    /\ ret.k = 2 /\ Len(arg) = 2
    /\ arg[1].clone.isdir /\ ret.path = "exception"
    /\ ~ret.leftover
    /\ ret.dirs = {}

----------------------------------------------------------------------------
(* The catalog: packages.json holds two packages; the second one leaves    *)
(* out the optional keys it can.                                           *)

MaxSources == 2

SourcePool ==
    { [method |-> M_fossil, url |-> UrlFtp],
      [method |-> M_fossil, url |-> UrlTcllib],
      [method |-> M_fossil, url |-> UrlChisel],
      [method |-> M_git, url |-> UrlGithub],
      [method |-> M_hg, url |-> UrlOther],
      [method |-> M_hg, url |-> UrlTcllib],
      [method |-> M_git, url |-> UrlGithub, branch |-> <<"main">>, last_tag |-> <<"old">>] }

SourceLists == UNION {[1..n -> SourcePool] : n \in 0..MaxSources}

PkgTags == <<<<"net">>>>
PkgDescription == <<"FTP client">>

Package(k, srcs) ==
    IF k = 1
    THEN [name |-> <<"p1">>, sources |-> srcs, tags |-> PkgTags, description |-> PkgDescription]
    ELSE IF srcs = <<>> THEN [name |-> <<"p2">>]
    ELSE [name |-> <<"p2">>, sources |-> srcs]

\* the sources go to the first package, or all but the first of them to
\* the second
Cuts(l) == {IF l = <<>> THEN 0 ELSE 1, Len(l)}

Catalogs ==
    UNION {{<<Package(1, SubSeq(l, 1, cut)), Package(2, SubSeq(l, cut + 1, Len(l)))>> :
               cut \in Cuts(l)} : l \in SourceLists}

\* d.get(key, default)
PkgGet(package, key, default) == IF key \in DOMAIN package THEN package[key] ELSE default

----------------------------------------------------------------------------
(* main().  pc = "loop": at the head of the loop over the sources of       *)
(* packages[idx]; "fossil_tag": inside process_fossil, the date part done; *)
(* "github": the resolver has returned; "crashed": an exception has left   *)
(* main(), nothing was written; "done": the output file is written.        *)

NoTrace == [date_hit |-> FALSE, date_reqs |-> <<>>, tag_hit |-> FALSE, tag_reqs |-> <<>>]
NoExecutions == [date |-> <<>>, tag |-> <<>>, origin |-> <<>>, github |-> <<>>]

Bump(f, k) == IF k \in DOMAIN f THEN [f EXCEPT ![k] = @ + 1] ELSE (k :> 1) @@ f

\* history: one more request to each of the URLs of reqs
RECURSIVE BumpAll(_, _)
BumpAll(f, reqs) == IF reqs = <<>> THEN f ELSE BumpAll(Bump(f, Head(reqs).url), Tail(reqs))

Init ==
    /\ HarnessIdle
    /\ packages \in Catalogs
    /\ pc = "loop" /\ idx = 1 /\ sidx = 1
    /\ reachable = <<>> /\ src_meta = <<>> /\ date_meta = <<>>
    /\ enriched_sources = <<>> /\ enriched_packages = <<>>
    /\ final_output = None
    /\ _github_repo_cache = <<>> /\ _fossil_repo_cache = <<>> /\ _fossil_date_cache = <<>>
    /\ trace = NoTrace /\ executions = NoExecutions

sources == PkgGet(packages[idx], "sources", <<>>)
source == sources[sidx]
AtSource == pc = "loop" /\ idx <= Len(packages) /\ sidx <= Len(sources)

caches == <<_github_repo_cache, _fossil_repo_cache, _fossil_date_cache>>
outputs == <<enriched_sources, enriched_packages, final_output>>

\* lines 582-586: the probe, then process_git
GitSource ==
    /\ AtSource /\ source.method = M_git
    /\ \E head \in HeadRuns, git \in MainGitAnswers :
         /\ reachable' = check_url_reachable(head)[1]
         /\ src_meta' = process_git(git.clone, git.log, git.rev, git.tags).fields
    /\ pc' = "github"
    /\ UNCHANGED <<harness, packages, idx, sidx, date_meta, outputs, caches, trace, executions>>

\* history: which of the answers held the date the cascade had to keep
DateOrigin(base, api, mir, html) ==
    IF base \in DOMAIN FOSSIL_GIT_MIRRORS /\ mir \in MirrorYielding THEN "mirror"
    ELSE IF api \in ApiYielding THEN "api"
    ELSE IF html \in HtmlYielding THEN "html"
    ELSE "none"

\* A slip: the cache is replaced by the new entry
DateCacheStoreAlone(cache, url, meta) == (url :> meta)

\* line 542
DateCacheStore(cache, url, meta) == (url :> meta) @@ cache

\* lines 582, 587-588 and 531-542: the probe, then the date part of
\* process_fossil
FossilDate ==
    /\ AtSource /\ source.method = M_fossil
    /\ \E head \in HeadRuns : reachable' = check_url_reachable(head)[1]
    /\ LET url == source.url
       IN IF url \in DOMAIN _fossil_date_cache
          THEN /\ date_meta' = _fossil_date_cache[url]
               /\ trace' = [NoTrace EXCEPT !.date_hit = TRUE]
               /\ pc' = "fossil_tag"
               /\ UNCHANGED <<_fossil_date_cache, executions>>
          ELSE \E api \in MainApiResults, mir \in MainMirrorResults, html \in MainHtmlResults :
                 LET r == _fetch_fossil_date(BaseOfUrl[url], ModuleOfUrl[url], DateMeta0,
                                             api, mir, html)
                 IN /\ trace' = [NoTrace EXCEPT !.date_reqs = r.reqs]
                    /\ executions' = [executions EXCEPT !.date = Bump(@, url),
                                                        !.origin = (url :> DateOrigin(BaseOfUrl[url], api, mir, html)) @@ @]
                    /\ IF r.exc
                       THEN /\ pc' = "crashed"
                            /\ UNCHANGED <<date_meta, _fossil_date_cache>>
                       ELSE /\ pc' = "fossil_tag"
                            /\ date_meta' = r.meta
                            /\ _fossil_date_cache' = DateCacheStore(_fossil_date_cache, url, r.meta)
    /\ UNCHANGED <<harness, packages, idx, sidx, src_meta, outputs,
                   _github_repo_cache, _fossil_repo_cache>>

TagMeta0 == [last_tag |-> None]

\* A slip: the tag cache is keyed by the source URL
TagCacheKeyIsUrl(url) == url

\* lines 531, 545, 551: the key of _fossil_repo_cache
TagCacheKey(url) == BaseOfUrl[url]

\* lines 545-553: the tag part of process_fossil and its return
FossilTag ==
    /\ pc = "fossil_tag"
    /\ LET url == source.url
           key == TagCacheKey(url)
       IN IF key \in DOMAIN _fossil_repo_cache
          THEN /\ src_meta' = _fossil_repo_cache[key] @@ date_meta
               /\ trace' = [trace EXCEPT !.tag_hit = TRUE]
               /\ pc' = "github"
               /\ UNCHANGED <<_fossil_repo_cache, executions>>
          ELSE \E jtags \in MainJsonTagResults, htags \in MainHtmlTagResults,
                  hbr \in MainHtmlTagResults, ls \in MainMirrorTagRuns :
                 LET r == _fetch_fossil_tag(BaseOfUrl[url], TagMeta0, jtags, htags, hbr,
                                            MirrorTagOf[ls])
                 IN /\ trace' = [trace EXCEPT !.tag_reqs = r.reqs]
                    /\ executions' = [executions EXCEPT !.tag = Bump(@, BaseOfUrl[url])]
                    /\ IF r.exc
                       THEN /\ pc' = "crashed"
                            /\ UNCHANGED <<src_meta, _fossil_repo_cache>>
                       ELSE /\ pc' = "github"
                            /\ src_meta' = r.meta @@ date_meta
                            /\ _fossil_repo_cache' = (key :> r.meta) @@ _fossil_repo_cache
    /\ UNCHANGED <<harness, packages, idx, sidx, reachable, date_meta, outputs,
                   _github_repo_cache, _fossil_date_cache>>

\* lines 582, 589-595
UnknownSource ==
    /\ AtSource /\ source.method \notin {M_git, M_fossil}
    /\ \E head \in HeadRuns : reachable' = check_url_reachable(head)[1]
    /\ src_meta' = ("error" :> E_unknown_method) @@ GitMeta0
    /\ pc' = "github"
    /\ UNCHANGED <<harness, packages, idx, sidx, date_meta, outputs, caches, trace, executions>>

\* A slip: the record is built from the two fields the loop reads
EnrichedSourceListed(src, reach, gh_info, meta) ==
    meta @@ [reachable |-> reach, archived |-> gh_info.archived,
             latest_release |-> gh_info.latest_release]
         @@ [method |-> src.method, url |-> src.url]

\* A slip: the error code of the resolver is not copied
EnrichedSourceNoError(src, reach, gh_info, meta) ==
    LET full == meta @@ [reachable |-> reach, archived |-> gh_info.archived,
                         latest_release |-> gh_info.latest_release] @@ src
    IN [k \in DOMAIN full \ {"error"} |-> full[k]]

\* A slip: keys without a value are left out
EnrichedSourceSparse(src, reach, gh_info, meta) ==
    LET full == meta @@ [reachable |-> reach, archived |-> gh_info.archived,
                         latest_release |-> gh_info.latest_release] @@ src
    IN [k \in {x \in DOMAIN full : full[x] # None} |-> full[k]]

\* lines 609-615
EnrichedSource(src, reach, gh_info, meta) ==
    meta @@ [reachable |-> reach, archived |-> gh_info.archived,
             latest_release |-> gh_info.latest_release] @@ src

\* A slip: the mirror table is consulted whatever the method
ConsultsMirrorTableAnyMethod(method, gh_info, fossil_base) ==
    gh_info.archived = None /\ fossil_base \in DOMAIN FOSSIL_GIT_MIRRORS

\* lines 601-604: the conditions under which the mirror is resolved instead
ConsultsMirrorTable(method, gh_info, fossil_base) ==
    gh_info.archived = None /\ method = M_fossil /\ fossil_base \in DOMAIN FOSSIL_GIT_MIRRORS

\* lines 600-616: the GitHub metadata, then the enriched source is appended
GithubInfo ==
    /\ pc = "github"
    /\ \E ans \in GithubAnswers :
         LET url == source.url
             first == _fetch_github_repo_info(url, _github_repo_cache, ans[1], ans[2])
             viaMirror == /\ ~first.exc
                          /\ ConsultsMirrorTable(source.method, first.info, BaseOfUrl[url])
             last == IF viaMirror
                     THEN _fetch_github_repo_info(FOSSIL_GIT_MIRRORS[BaseOfUrl[url]],
                                                  first.cache, ans[1], ans[2])
                     ELSE first
         IN /\ executions' =
                  [executions EXCEPT
                     !.github = BumpAll(@, first.reqs \o (IF viaMirror THEN last.reqs ELSE <<>>))]
            /\ IF last.exc
               THEN /\ pc' = "crashed"
                    /\ UNCHANGED <<sidx, enriched_sources, _github_repo_cache>>
               ELSE /\ pc' = "loop"
                    /\ sidx' = sidx + 1
                    /\ enriched_sources' =
                           Append(enriched_sources,
                                  EnrichedSource(source, reachable, last.info, src_meta))
                    /\ _github_repo_cache' = last.cache
    /\ trace' = NoTrace
    /\ UNCHANGED <<harness, packages, idx, reachable, src_meta, date_meta, enriched_packages,
                   final_output, _fossil_repo_cache, _fossil_date_cache>>

\* lines 618-624, and line 574 of the next iteration
PackageDone ==
    /\ pc = "loop" /\ idx <= Len(packages) /\ sidx > Len(sources)
    /\ enriched_packages' =
           Append(enriched_packages,
                  [name |-> packages[idx].name,
                   sources |-> enriched_sources,
                   tags |-> PkgGet(packages[idx], "tags", <<>>),
                   description |-> PkgGet(packages[idx], "description", <<>>)])
    /\ enriched_sources' = <<>>
    /\ idx' = idx + 1
    /\ sidx' = 1
    /\ UNCHANGED <<harness, pc, packages, reachable, src_meta, date_meta, final_output, caches,
                   trace, executions>>

\* lines 626-629; the clock reading is not examined
meta_header == [packages |-> <<"Tcl/Tk">>, generated_at |-> <<"now">>]

\* lines 631-634
WriteOutput ==
    /\ pc = "loop" /\ idx > Len(packages)
    /\ final_output' = <<meta_header>> \o enriched_packages
    /\ pc' = "done"
    /\ UNCHANGED <<harness, packages, idx, sidx, reachable, src_meta, date_meta,
                   enriched_sources, enriched_packages, caches, trace, executions>>

Next ==
    \/ GitSource
    \/ FossilDate
    \/ FossilTag
    \/ UnknownSource
    \/ GithubInfo
    \/ PackageDone
    \/ WriteOutput

Spec == Init /\ [][Next]_vars

----------------------------------------------------------------------------
(* Properties of a run of main() *)

\* every enriched source produced so far, written or not
Produced ==
    {enriched_sources[i] : i \in DOMAIN enriched_sources}
      \cup UNION {{enriched_packages[k].sources[i] : i \in DOMAIN enriched_packages[k].sources} :
                     k \in DOMAIN enriched_packages}

\* C1: in one run the date cascade is executed at most once per source URL
\* and the tag cascade at most once per repository root, whatever the first
\* execution found.
CascadeOncePerKey ==
    /\ \A u \in DOMAIN executions.date : executions.date[u] <= 1
    /\ \A b \in DOMAIN executions.tag : executions.tag[b] <= 1

\* a source whose URL and root were seen before is served from both caches,
\* although the first execution found neither a date nor a tag
CascadeOncePerKeyWitness ==
    /\ pc = "github"
    /\ trace.date_hit /\ trace.tag_hit
    /\ "error" \in DOMAIN src_meta /\ src_meta.last_tag = None
    /\ executions.date[source.url] = 1
    /\ executions.tag[RootCore] = 1

Flagged(meta) ==
    "last_commit_approximate" \in DOMAIN meta /\ meta.last_commit_approximate = PyTrue

\* C3: what process_fossil returns carries last_commit_approximate = True
\* exactly when the date of its URL came from the HTML timeline, neither the
\* JSON timeline nor the mirror holding one; this includes results served
\* from the date cache.
ApproximateIffHtmlFallback ==
    (pc = "github" /\ source.method = M_fossil) =>
        (Flagged(src_meta) <=> executions.origin[source.url] = "html")

\* a flagged result served from the date cache
ApproximateIffHtmlFallbackWitness ==
    /\ pc = "github" /\ source.method = M_fossil
    /\ trace.date_hit
    /\ Flagged(src_meta)
    /\ src_meta.last_commit = D_html

\* the name= parameter and the repository root of the catalog's Fossil URLs,
\* as written in the catalog
NameOf(url) == IF url = UrlFtp THEN W_modules \o SL \o W_ftp ELSE None
RootOf(url) == IF url = UrlChisel THEN RootChisel ELSE RootCore

\* the value of the query parameter key (written with its & and =) in url
QueryParam(url, key) ==
    IF ~Contains(url, key) THEN None
    ELSE LET rest == SubSeq(url, Index(url, key) + Len(key), Len(url))
         IN SubSeq(rest, 1, RunLenNot(rest, {"&"}))

\* the module a date request asks for
ModuleAsked(req) ==
    IF req.tier = "mirror_commits" THEN QueryParam(req.url, T_path) ELSE QueryParam(req.url, T_p)

\* every request of the tag cascade goes to the root or to its mirror
TagRequestsAtRoot ==
    (pc = "github" /\ source.method = M_fossil) =>
        \A i \in DOMAIN trace.tag_reqs :
            LET root == RootOf(source.url)
            IN trace.tag_reqs[i].url \in
                 {root \o T_json_taglist, root \o T_taglist, root \o T_brlist, MirrorTcllib}

\* C7 as stated: every request of the date cascade asks for the module P of
\* the name= parameter (for the whole repository without one), and every
\* request of the tag cascade goes to the stripped root.
EveryDateFetchScoped ==
    /\ pc = "fossil_tag" =>
          \A i \in DOMAIN trace.date_reqs :
              ModuleAsked(trace.date_reqs[i]) = NameOf(source.url)
    /\ TagRequestsAtRoot

\* C7, amended: the JSON timeline request and the mirror commit request ask
\* for exactly the module P of the name= parameter (for the whole repository
\* without one); the HTML timeline request never names a module; every
\* request of the tag cascade goes to the stripped root.
DateFetchScopedButHtml ==
    /\ pc = "fossil_tag" =>
          \A i \in DOMAIN trace.date_reqs :
              LET req == trace.date_reqs[i]
                  root == RootOf(source.url)
              IN CASE req.tier = "json_timeline" ->
                        /\ ModuleAsked(req) = NameOf(source.url)
                        /\ StartsWith(req.url, root \o T_json_timeline)
                   [] req.tier = "mirror_commits" ->
                        /\ ModuleAsked(req) = NameOf(source.url)
                        /\ StartsWith(req.url, T_api_repos \o W_tcltk \o SL \o W_tcllib \o T_commits)
                   [] OTHER -> req.url = root \o T_timeline_n1
    /\ TagRequestsAtRoot

\* a module-scoped source going through all three date tiers and all four
\* tag tiers
DateFetchScopedButHtmlWitness ==
    /\ pc = "github"
    /\ source.url = UrlFtp
    /\ Len(trace.date_reqs) = 3 /\ trace.date_reqs[3].tier = "html_timeline"
    /\ Len(trace.tag_reqs) = 4

EveryRunWritesOutput ==
    /\ pc # "crashed"
    /\ pc = "done" =>
          /\ Len(final_output) = Len(packages) + 1
          /\ final_output[1] = meta_header
          /\ \A k \in DOMAIN packages :
                LET in == PkgGet(packages[k], "sources", <<>>)
                    out == final_output[k + 1]
                IN /\ out.name = packages[k].name
                   /\ Len(out.sources) = Len(in)
                   /\ \A i \in DOMAIN in :
                         /\ out.sources[i].url = in[i].url
                         /\ out.sources[i].method = in[i].method

ErrorCodes == {E_clone_failed, E_date_not_found, E_unknown_method}

RepoFor(e) ==
    IF e.url = UrlGithub THEN W_tcltk \o SL \o W_tcllib
    ELSE IF e.method = M_fossil /\ e.url \in {UrlFtp, UrlTcllib} THEN W_tcltk \o SL \o W_tcllib
    ELSE None

\* C16: in one run no GitHub metadata endpoint (repository, latest release)
\* is requested twice, even when the first answer was a failure, and every
\* enriched source that resolves to an owner/repo holds the archived and
\* latest_release values cached for it.
GithubOncePerRepo ==
    /\ \A u \in DOMAIN executions.github : executions.github[u] <= 1
    /\ \A e \in Produced :
          RepoFor(e) # None =>
              /\ RepoFor(e) \in DOMAIN _github_repo_cache
              /\ e.archived = _github_repo_cache[RepoFor(e)].archived
              /\ e.latest_release = _github_repo_cache[RepoFor(e)].latest_release

\* a Git source and then a Fossil source of the same owner/repo, the first
\* answer a failure: each endpoint asked once, both sources without values
GithubOncePerRepoWitness ==
    /\ Len(enriched_sources) = 2
    /\ enriched_sources[1].url = UrlGithub /\ enriched_sources[2].url = UrlTcllib
    /\ enriched_sources[2].method = M_fossil
    /\ enriched_sources[1].archived = None /\ enriched_sources[2].archived = None
    /\ executions.github[T_api_repos \o W_tcltk \o SL \o W_tcllib] = 1
    /\ executions.github[T_api_repos \o W_tcltk \o SL \o W_tcllib \o T_releases_latest] = 1

\* the sources of the catalog
CatalogSources ==
    UNION {{PkgGet(packages[k], "sources", <<>>)[i] :
               i \in DOMAIN PkgGet(packages[k], "sources", <<>>)} : k \in DOMAIN packages}

\* C19: an enriched Fossil source whose URL is not a GitHub URL holds, when
\* its root is a key of the mirror table, the archived and latest_release
\* values resolved for the mirror's owner/repo, and None for both when its
\* root is not a key; a source of another method whose URL is not a GitHub
\* URL holds None for both even when its URL is a root of the table, and a
\* catalog of such sources alone causes no GitHub request.
MirrorCrossReference ==
    /\ \A e \in Produced :
          e.url # UrlGithub =>
              IF e.method = M_fossil /\ RootOf(e.url) \in DOMAIN FOSSIL_GIT_MIRRORS
              THEN /\ W_tcltk \o SL \o W_tcllib \in DOMAIN _github_repo_cache
                   /\ e.archived = _github_repo_cache[W_tcltk \o SL \o W_tcllib].archived
                   /\ e.latest_release =
                          _github_repo_cache[W_tcltk \o SL \o W_tcllib].latest_release
              ELSE e.archived = None /\ e.latest_release = None
    /\ (\A c \in CatalogSources : c.method # M_fossil /\ c.url # UrlGithub) =>
          /\ executions.github = <<>>
          /\ _github_repo_cache = <<>>

\* a source of an unknown method at a root of the table got nothing, and
\* the Fossil source after it, at the same URL, got the mirror's values
MirrorCrossReferenceWitness ==
    /\ Len(enriched_sources) = 2
    /\ enriched_sources[1].url = UrlTcllib /\ enriched_sources[1].method = M_hg
    /\ enriched_sources[1].archived = None
    /\ enriched_sources[2].url = UrlTcllib /\ enriched_sources[2].method = M_fossil
    /\ enriched_sources[2].archived = PyTrue
    /\ enriched_sources[2].latest_release = Tag_rel

\* every entry of cache is in after, unchanged, and after has at most one
\* more key
Kept(cache, after) ==
    /\ \A k \in DOMAIN cache : k \in DOMAIN after /\ after[k] = cache[k]
    /\ Cardinality(DOMAIN after) <= Cardinality(DOMAIN cache) + 1

\* no step changes or removes an entry of a cache, and a cascade or a
\* GitHub request is made only for a key that its cache does not hold
CacheStep ==
    /\ Kept(_fossil_date_cache, _fossil_date_cache')
    /\ Kept(_fossil_repo_cache, _fossil_repo_cache')
    /\ Kept(_github_repo_cache, _github_repo_cache')
    /\ executions'.date # executions.date => source.url \notin DOMAIN _fossil_date_cache
    /\ executions'.tag # executions.tag => RootOf(source.url) \notin DOMAIN _fossil_repo_cache
    /\ executions'.github # executions.github =>
          W_tcltk \o SL \o W_tcllib \notin DOMAIN _github_repo_cache

\* every enriched Fossil source holds the date its URL has in the date
\* cache and the tag its root has in the tag cache
ServedFromCaches ==
    \A e \in Produced :
        e.method = M_fossil =>
            /\ e.url \in DOMAIN _fossil_date_cache
            /\ e.last_commit = _fossil_date_cache[e.url].last_commit
            /\ e.last_commit_sha = _fossil_date_cache[e.url].last_commit_sha
            /\ RootOf(e.url) \in DOMAIN _fossil_repo_cache
            /\ e.last_tag = _fossil_repo_cache[RootOf(e.url)].last_tag

\* C20: the three caches are empty when a run starts; no step changes or
\* removes an entry that a cache holds, and a key a cache holds is never
\* fetched again; every Fossil source produced, the first of its key or a
\* later one, holds what the caches hold for its URL and its root.
CachesWriteOnce ==
    /\ (_fossil_date_cache = <<>> /\ _fossil_repo_cache = <<>> /\ _github_repo_cache = <<>>)
    /\ []ServedFromCaches
    /\ [][CacheStep]_vars

\* two Fossil sources of one URL: the second is served a negative date and
\* a null tag from caches that hold one key each
CachesWriteOnceWitness ==
    /\ Len(enriched_sources) = 2
    /\ enriched_sources[1].url = UrlFtp /\ enriched_sources[2].url = UrlFtp
    /\ "error" \in DOMAIN enriched_sources[2]
    /\ enriched_sources[2].error = E_date_not_found
    /\ enriched_sources[2].last_tag = None
    /\ DOMAIN _fossil_date_cache = {UrlFtp}
    /\ DOMAIN _fossil_repo_cache = {RootCore}
    /\ executions.date[UrlFtp] = 1

\* the date cache holds two URLs of one root
CachesHoldTwoKeys ==
    /\ DOMAIN _fossil_date_cache = {UrlFtp, UrlTcllib}
    /\ DOMAIN _fossil_repo_cache = {RootCore}

\* the names of the fields that main() computes
ComputedFields ==
    {"reachable", "archived", "latest_release", "last_commit", "last_commit_sha",
     "last_commit_approximate", "last_tag", "error"}

\* out holds every field of the catalog source in that is not a computed
\* one, with its value
PassedThrough(in, out) ==
    \A f \in DOMAIN in \ ComputedFields : f \in DOMAIN out /\ out[f] = in[f]

\* every enriched source produced so far, set against the catalog source at
\* its place
PassThroughKept ==
    /\ \A k \in DOMAIN enriched_packages :
          \A i \in DOMAIN enriched_packages[k].sources :
              PassedThrough(PkgGet(packages[k], "sources", <<>>)[i],
                            enriched_packages[k].sources[i])
    /\ \A i \in DOMAIN enriched_sources : PassedThrough(sources[i], enriched_sources[i])

\* C21: no step of a run changes the catalog read at its start, and every
\* enriched source holds method, url and every other field of its catalog
\* source whose name is not that of a computed field, with the catalog's
\* value.
EnrichmentIsCopy ==
    /\ []PassThroughKept
    /\ [][packages' = packages]_vars

\* a written catalog source with a field of its own and a last_tag of its
\* own: the first is kept, the second replaced by the resolver's
EnrichmentIsCopyWitness ==
    /\ pc = "done"
    /\ \E k \in DOMAIN packages :
          /\ "sources" \in DOMAIN packages[k]
          /\ \E i \in DOMAIN packages[k].sources :
                /\ "branch" \in DOMAIN packages[k].sources[i]
                /\ packages[k].sources[i].last_tag = <<"old">>
                /\ final_output[k + 1].sources[i].branch = <<"main">>
                /\ final_output[k + 1].sources[i].last_tag = Tag_git

====
